---- MODULE Spec2Model ----
(***************************************************************************)
(* A model of the S-expression evaluation engine of s_style_agent:         *)
(*   - core/evaluator.py        Environment, ContextualEvaluator           *)
(*   - core/async_evaluator.py  AsyncEnvironment, AsyncContextualEvaluator *)
(* Both evaluators are recursive tree walkers.  They are modelled as       *)
(* abstract machines: each thread (worker-pool evaluator) or asyncio task  *)
(* (cooperative evaluator) owns a stack of frames, one frame per active    *)
(* call of _evaluate_basic / _evaluate_basic_async.                        *)
(***************************************************************************)
EXTENDS Integers, Sequences, FiniteSets, TLC

VARIABLES
    program,    \* the AST handed to evaluate_with_context
    envs,       \* arena of Environment objects; envs[1] is the caller's env
    tasks,      \* threads (sync) or asyncio tasks (async); tasks[1] is the caller
    notifs,     \* the messages printed by notify, in print order
    toolCalls,  \* the calls that reached ToolExecutor.execute_tool, in order
    ready,      \* async only: the event loop's FIFO of scheduled callbacks
    maxPar,     \* async only: max_parallel_tasks given to __init__
    sem,        \* async only: value of the evaluator's asyncio.Semaphore
    active,     \* async only: the tasks registered in _active_tasks
    isAdmin,    \* async only: is_admin given to __init__
    text,       \* parser only: the surface text, a sequence of characters
    pst,        \* parser only: which of parse / format / parse again is next
    pres,       \* parser only: what the last parse_s_expression gave
    shown,      \* parser only: the text the formatter made of the AST
    traced,     \* whether the run follows the trace logger; the logger has no
                \* effect on evaluation
    path,       \* trace logger: current_path
    entries,    \* trace logger: the entries, in the order they were appended
    open,       \* trace logger: per thread, the entry_id of each active call
    starter,    \* trace logger: the thread whose start_operation was the last
                \* call of the logger, 0 if the last call was another one
    durs,       \* trace logger: duration_ms of each entry
    meta,       \* trace logger: the hierarchy metadata of each entry
    analysed,   \* trace logger: analyze_tree_structure ran on these entries
    svc,        \* agent service: the call of evaluate_s_expression in progress
    history,    \* agent service: session_history
    gate,       \* schema validator: the expression given to validate and what
                \* the validators said of it
    ref         \* the caller's bindings at the start and, once both evaluators
                \* are run on the program, the outcome of the synchronous one

asyncVars == <<ready, maxPar, sem, active, isAdmin>>
parseVars == <<text, pst, pres, shown>>
traceVars == <<traced, path, entries, open, starter>>
treeVars == <<durs, meta, analysed>>
\* what the evaluators leave alone
serviceVars == <<svc, history>>
gateVars == <<gate>>
otherVars == <<parseVars, treeVars, serviceVars, gateVars>>
vars == <<program, envs, tasks, notifs, toolCalls, asyncVars, otherVars, traceVars, ref>>

----------------------------------------------------------------------------
(* Bounds of the model.                                                    *)

\* largest max_iterations literal of a generated while form
MaxIter == 3
\* largest max_parallel_tasks the async evaluator is constructed with
MaxParallel == 2
\* longest surface text handed to the parser, in characters
MaxText == 5
\* most entries the logger holds when its tree is analysed
MaxEntries == 3
\* most calls of evaluate_s_expression made on one agent service
MaxCalls == 2

----------------------------------------------------------------------------
(* The AST (parser.SExpression) and run-time values.  Every value carries  *)
(* a tag t, as Python values carry their type.                             *)

I(n) == [t |-> "int", n |-> n]
S(s) == [t |-> "str", s |-> s]
L(items) == [t |-> "list", items |-> items]
B(b) == [t |-> "bool", b |-> b]
Fl(n) == [t |-> "float", n |-> n]
\* the float n + 0.5, for n >= 0 (a float that is not a whole number)
FlHalf(n) == [t |-> "float", n |-> n, half |-> TRUE]
IsHalf(v) == v.t = "float" /\ "half" \in DOMAIN v
None == [t |-> "none"]

IsList(x) == x.t = "list"
IsStr(x) == x.t = "str"

\* args = expr[1:]
Args(expr) == SubSeq(expr.items, 2, Len(expr.items))

\* an exception object: its class name and a short message
Err(type, msg) == [type |-> type, msg |-> msg]
NoExc == [type |-> "none", msg |-> ""]

\* str(op) for an operator that need not be a string
OpName(op) == IF IsStr(op) THEN op.s ELSE "<non-string>"

\* Python truthiness of a value, as used by `if cond_val:` and `if not condition_result:`
Truthy(v) ==
    CASE v.t = "none" -> FALSE
      [] v.t = "bool" -> v.b
      [] v.t = "int" -> v.n # 0
      [] v.t = "float" -> v.n # 0
      [] v.t = "str" -> v.s # ""
      [] v.t = "list" -> Len(v.items) > 0
      [] OTHER -> TRUE

\* str(value) inside an f-string, for the values the tools are given
StrOf(v) == IF IsStr(v) THEN v.s ELSE "<value>"

NumLike(v) == v.t \in {"int", "bool", "float"}
NumOf(v) == IF v.t = "bool" THEN (IF v.b THEN 1 ELSE 0) ELSE v.n

\* result + val : a value, or the TypeError Python raises
PyAdd(a, b) ==
    CASE NumLike(a) /\ NumLike(b) ->
             [ok |-> TRUE,
              val |-> IF a.t = "float" \/ b.t = "float"
                      THEN Fl(NumOf(a) + NumOf(b)) ELSE I(NumOf(a) + NumOf(b))]
      [] a.t = "str" /\ b.t = "str" -> [ok |-> TRUE, val |-> S(a.s \o b.s)]
      [] a.t = "list" /\ b.t = "list" -> [ok |-> TRUE, val |-> L(a.items \o b.items)]
      [] OTHER -> [ok |-> FALSE, val |-> None]

\* a < b : a bool, or the TypeError Python raises (numbers only; two strings
\* are never compared by a generated program)
PyLt(a, b) ==
    IF NumLike(a) /\ NumLike(b)
    THEN [ok |-> TRUE, val |-> B(NumOf(a) < NumOf(b))]
    ELSE [ok |-> FALSE, val |-> None]

----------------------------------------------------------------------------
(* Environment: a scope chain.  envs[e] = [parent, b]; parent = 0 is None. *)

NoBindings == [n \in {} |-> None]
NewEnv(parent) == [parent |-> parent, b |-> NoBindings]

\* Environment.define
Define(es, e, var, val) ==
    [es EXCEPT ![e].b =
        [n \in (DOMAIN es[e].b) \cup {var} |-> IF n = var THEN val ELSE es[e].b[n]]]

NotFound == [t |-> "notfound"]

\* Environment.lookup: NotFound stands for the NameError
RECURSIVE Lookup(_, _, _)
Lookup(es, e, var) ==
    IF var \in DOMAIN es[e].b THEN es[e].b[var]
    ELSE IF es[e].parent # 0 THEN Lookup(es, es[e].parent, var)
    ELSE NotFound

\* a buggy set: assigns in the innermost scope, creating the binding
EnvSetInnermost(es, e, var, val) ==
    [ok |-> TRUE, envs |-> Define(es, e, var, val)]

\* Environment.set: ok = FALSE stands for the NameError
RECURSIVE EnvSet(_, _, _, _)
EnvSet(es, e, var, val) ==
    IF var \in DOMAIN es[e].b THEN [ok |-> TRUE, envs |-> [es EXCEPT ![e].b[var] = val]]
    ELSE IF es[e].parent # 0 THEN EnvSet(es, es[e].parent, var, val)
    ELSE [ok |-> FALSE, envs |-> es]

----------------------------------------------------------------------------
(* Frames and tasks.                                                       *)

\* one active call _evaluate_basic(expr, env)
NewFrame(expr, env) ==
    [expr |-> expr, env |-> env, pc |-> "start", i |-> 0, acc |-> None,
     env2 |-> 0, kids |-> <<>>, max |-> 0, pend |-> NoExc, g |-> "none"]

NewTask(expr, env) ==
    [stack |-> <<NewFrame(expr, env)>>, rv |-> None, exc |-> NoExc, st |-> "run",
     cancel |-> FALSE, wait |-> "none", parent |-> 0, kind |-> "main"]

Top(t) == tasks[t].stack[Len(tasks[t].stack)]

Running(t) ==
    /\ maxPar = 0
    /\ tasks[t].st = "run"
    /\ tasks[t].exc = NoExc
    /\ tasks[t].stack # <<>>

IsForm(f, name) ==
    /\ IsList(f.expr)
    /\ Len(f.expr.items) > 0
    /\ f.expr.items[1] = S(name)

\* the task with its top frame replaced by f and a call of child pushed
CallT(tk, f, child) ==
    [tk EXCEPT !.stack = Append([tk.stack EXCEPT ![Len(tk.stack)] = f], child)]

\* the task after its top frame returned v
ReturnT(tk, v) ==
    LET s == SubSeq(tk.stack, 1, Len(tk.stack) - 1)
    IN [tk EXCEPT !.stack = s, !.rv = v, !.st = IF s = <<>> THEN "done" ELSE "run"]

\* the task after its top frame raised e (the frame is left for the unwinding)
RaiseT(tk, e) == [tk EXCEPT !.exc = e]

\* the task with its top frame replaced by f, still running
StayT(tk, f) == [tk EXCEPT !.stack[Len(tk.stack)] = f]

----------------------------------------------------------------------------
(* TraceLogger (core/trace_logger.py), the global logger _evaluate_basic    *)
(* writes to.  A trace state tr is the logger's current_path and entries    *)
(* with the entry_ids the acting thread holds, one per active call.         *)

\* TraceEntry: the path copied at the start, whether end_operation completed
\* it, whether log_error made it
TraceEntry(p, e) == [path |-> p, done |-> FALSE, error |-> e]

\* start_operation: appends an entry with a copy of current_path
StartOperation(tr) ==
    [tr EXCEPT !.entries = Append(tr.entries, TraceEntry(tr.path, FALSE)),
               !.ids = Append(tr.ids, Len(tr.entries) + 1)]

\* end_operation(entry_id, result, metadata)
EndOperation(tr) ==
    [tr EXCEPT !.entries[tr.ids[Len(tr.ids)]].done = TRUE,
               !.ids = SubSeq(tr.ids, 1, Len(tr.ids) - 1)]

\* push_path(index); idx < 0 stands for a call made without a push
PushPath(tr, idx) ==
    IF idx < 0 THEN tr ELSE [tr EXCEPT !.path = Append(tr.path, idx)]

\* pop_path(): nothing when current_path is empty
PopPath(tr) ==
    IF tr.path = <<>> THEN tr
    ELSE [tr EXCEPT !.path = SubSeq(tr.path, 1, Len(tr.path) - 1)]

\* the except clause of _evaluate_basic: log_error, then current_path.clear()
LogError(tr) ==
    [tr EXCEPT !.entries = Append(tr.entries, TraceEntry(tr.path, TRUE)),
               !.path = <<>>,
               !.ids = SubSeq(tr.ids, 1, Len(tr.ids) - 1)]

NonEmptyList(x) == IsList(x) /\ Len(x.items) > 0

\* the head of _evaluate_basic(expr): start_operation and, for a call,
\* push_path(0)
Enter(tr, expr) ==
    IF NonEmptyList(expr) THEN PushPath(StartOperation(tr), 0) ELSE StartOperation(tr)

\* the tail of _evaluate_basic(expr): pop_path() for a call, end_operation
Leave(tr, expr) ==
    EndOperation(IF NonEmptyList(expr) THEN PopPath(tr) ELSE tr)

\* the index a form pushes before it evaluates a child, f being the frame of
\* the form once the child is called and rv the value returned last; plan
\* and the max_iterations of while are evaluated without a push
PathIndex(f, rv) ==
    LET op == f.expr.items[1].s
    IN CASE ~IsStr(f.expr.items[1]) -> f.i
         [] op = "plan" -> 0 - 1
         [] op \in {"seq", "+"} -> f.i
         [] op = "if" -> IF f.pc = "if_cond" THEN 1 ELSE IF Truthy(rv) THEN 2 ELSE 3
         [] op = "handle" -> IF f.pc = "handle_try" THEN 2 ELSE 3
         [] op = "set" -> 2
         [] op = "while" ->
              CASE f.pc = "while_max" -> 0 - 1 [] f.pc = "while_cond" -> 1 [] OTHER -> 2
         [] op = "<" -> IF f.pc = "lt_a" THEN 1 ELSE 2
         [] op = "let" ->
              IF f.pc = "let_bind" THEN f.i ELSE Len(f.expr.items[2].items) + 1
         [] op \in {"notify", "search", "calc", "db-query"} -> 1
         [] OTHER -> f.i

\* the trace state thread t acts on: a worker that has not begun its branch
\* begins it now, with the current_path of this moment
Started(t) ==
    LET tr == [path |-> path, entries |-> entries, ids |-> open[t]]
    IN IF Len(open[t]) < Len(tasks[t].stack) THEN Enter(tr, Top(t).expr) ELSE tr

\* what a step of thread t does to the logger: a call pushes the child's
\* index and begins the child; a return ends the call and the caller pops;
\* an error leaving a call goes through the except clause
TraceStep(t) ==
    LET old == tasks[t]
        new == tasks'[t]
        n == Len(old.stack)
        tr == Started(t)
    IN CASE Len(new.stack) = n + 1 ->
              Enter(PushPath(tr, PathIndex(new.stack[n], old.rv)), new.stack[n + 1].expr)
         [] Len(new.stack) = n - 1 /\ new.exc = NoExc ->
              IF n > 1 /\ PathIndex(old.stack[n - 1], old.rv) >= 0
              THEN PopPath(Leave(tr, old.stack[n].expr))
              ELSE Leave(tr, old.stack[n].expr)
         [] Len(new.stack) = n - 1 -> LogError(tr)
         [] OTHER -> tr

\* start_operation takes entry_id = len(self.entries) and appends the entry
\* later, with no lock: when thread t begins start_operation before the
\* append of the start_operation another thread is in, both get the same
\* entry_id. tr is the logger after a step of t in which t's first new entry
\* came after that append; Overtaken(tr) is the logger when t had read the
\* length before it, so that t holds the other thread's entry_id, and
\* completes that entry if it ended its call in the same step
Overtaken(tr) ==
    LET mine == Len(entries) + 1
        theirs == Len(entries)
    IN [tr EXCEPT !.ids = [k \in DOMAIN tr.ids |->
                              IF tr.ids[k] = mine THEN theirs ELSE tr.ids[k]],
                  !.entries = IF tr.entries[mine].done
                              THEN [tr.entries EXCEPT ![mine].done = FALSE,
                                                      ![theirs].done = TRUE]
                              ELSE tr.entries]

\* the outcomes of a step of thread t that took the logger to tr
StartRace(t, tr) ==
    IF /\ starter \notin {0, t}
       /\ Len(tr.entries) > Len(entries)
       /\ ~tr.entries[Len(entries) + 1].error
    THEN {tr, Overtaken(tr)}
    ELSE {tr}

\* the thread whose start_operation is the last call of the logger after a
\* step of t that took the logger to tr
StarterAfter(t, tr) ==
    IF /\ Len(tr.entries) > Len(entries)
       /\ tr.ids # <<>>
       /\ tr.ids[Len(tr.ids)] >= Len(tr.entries) - 1
       /\ ~tr.entries[Len(tr.entries)].error
       /\ ~tr.entries[Len(tr.entries)].done
    THEN t ELSE 0

\* the logger after a step of thread t. A par pushes i + 1, submits the branch
\* and pops: the worker begins the branch at once, under the pushed path, or
\* at its first step
TraceFollows(t) ==
    /\ traced' = traced
    /\ IF ~traced
       THEN UNCHANGED <<path, entries, open, starter>>
       ELSE IF Len(tasks') > Len(tasks)
       THEN \E atOnce \in BOOLEAN :
               LET tr == Started(t)
                   kid == tasks'[Len(tasks')]
                   sub == Enter([PushPath(tr, Top(t).i + 1) EXCEPT !.ids = <<>>],
                                kid.stack[1].expr)
               IN IF atOnce
                  THEN /\ path' = PopPath(sub).path
                       /\ entries' = sub.entries
                       /\ open' = Append([open EXCEPT ![t] = tr.ids], sub.ids)
                       /\ starter' = Len(tasks')
                  ELSE /\ path' = tr.path
                       /\ entries' = tr.entries
                       /\ open' = Append([open EXCEPT ![t] = tr.ids], <<>>)
                       /\ starter' = 0
       ELSE \E tr \in StartRace(t, TraceStep(t)) :
               /\ path' = tr.path
               /\ entries' = tr.entries
               /\ open' = [open EXCEPT ![t] = tr.ids]
               /\ starter' = StarterAfter(t, tr)

\* the logger when evaluate_with_context calls _evaluate_basic(expr, env)
TraceBegins ==
    LET tr == [path |-> path, entries |-> entries, ids |-> <<>>]
        began == IF tasks'[1].stack # <<>> THEN Enter(tr, program) ELSE tr
    IN /\ traced' = traced
       /\ IF ~traced
          THEN UNCHANGED <<path, entries, open, starter>>
          ELSE /\ path' = began.path
               /\ entries' = began.entries
               /\ open' = <<began.ids>>
               /\ starter' = IF began.ids # <<>> THEN 1 ELSE 0

----------------------------------------------------------------------------
(* ContextualEvaluator (core/evaluator.py): the worker-pool evaluator.     *)
(* One action per control form of _evaluate_basic; t is the thread.        *)

WhileDefaultMax == 1000
WhileHardLimit == 10000

\* the operators _evaluate_basic implements itself; every other operator
\* falls through to the tool dispatch
SyncForms == {"plan", "seq", "par", "if", "handle", "set", "while", "+", "<", "let",
              "notify", "search", "calc", "db-query", "math", "step_math", "ask_user"}

\* the symbolic-math backend behind calc, on the expressions the programs use
CalcTable == [e \in {"1+1", "2+2", "3+3"} |->
                 CASE e = "1+1" -> 2 [] e = "2+2" -> 4 [] OTHER -> 6]

\* calc of the sync evaluator: float(sp.N(sp.sympify(str(expression)))), or the
\* error string of its except clause
CalcSync(v) ==
    IF IsStr(v) /\ v.s \in DOMAIN CalcTable THEN Fl(CalcTable[v.s]) ELSE S("calc error")

\* the tools the external Tool Provider knows besides the built-in forms
ProviderTools == {"ext_tool"}

\* ToolExecutor.execute_tool: the tool's result, or the ToolExecutionError raised
\* (tool not found, or the tool failed: works = FALSE)
ExecuteTool(name, works) ==
    IF name \notin ProviderTools
    THEN [ok |-> FALSE, val |-> None, exc |-> Err("ToolExecutionError", "tool not found")]
    ELSE IF works
         THEN [ok |-> TRUE, val |-> S("result of " \o name), exc |-> NoExc]
         ELSE [ok |-> FALSE, val |-> None, exc |-> Err("ToolExecutionError", "tool failed")]

\* the tool dispatch of _evaluate_basic: a failing execute_tool becomes the
\* string "tool execution error: ..." (except clause of line 595)
ToolOutcome(tk, r) ==
    IF r.ok THEN ReturnT(tk, r.val)
    ELSE ReturnT(tk, S("tool execution error: " \o r.exc.msg))

\* the security check of evaluate_with_context: the top-level operator only
SyncSecurityCheck(expr) ==
    ~(IsList(expr) /\ Len(expr.items) > 0 /\ expr.items[1] = S("__import__"))

\* evaluate_with_context(expr, env)
SyncEvaluateWithContext ==
    /\ maxPar = 0
    /\ tasks = <<>>
    /\ tasks' = IF SyncSecurityCheck(program)
                THEN <<NewTask(program, 1)>>
                ELSE <<[NewTask(program, 1) EXCEPT
                           !.stack = <<>>, !.st = "raised",
                           !.exc = Err("SecurityError", "dangerous operation")]>>
    /\ UNCHANGED <<program, otherVars, ref, envs, notifs, toolCalls, asyncVars>>
    /\ TraceBegins

\* atoms and the empty list
SyncAtom(t) ==
    /\ Running(t)
    /\ ~(IsList(Top(t).expr) /\ Len(Top(t).expr.items) > 0)
    /\ LET f == Top(t)
           r == IF IsStr(f.expr) THEN Lookup(envs, f.env, f.expr.s) ELSE f.expr
       IN tasks' = [tasks EXCEPT ![t] = ReturnT(@, IF r = NotFound THEN f.expr ELSE r)]
    /\ UNCHANGED <<program, otherVars, ref, envs, notifs, toolCalls, asyncVars>>
    /\ TraceFollows(t)

SyncPlan(t) ==
    /\ Running(t)
    /\ IsForm(Top(t), "plan")
    /\ LET f == Top(t)
           args == Args(f.expr)
           tk == tasks[t]
       IN tasks' = [tasks EXCEPT ![t] =
            IF f.pc = "start"
            THEN IF Len(args) = 0 THEN RaiseT(tk, Err("IndexError", "list index out of range"))
                 ELSE CallT(tk, [f EXCEPT !.pc = "ret"], NewFrame(args[1], f.env))
            ELSE ReturnT(tk, tk.rv)]
    /\ UNCHANGED <<program, otherVars, ref, envs, notifs, toolCalls, asyncVars>>
    /\ TraceFollows(t)

\* a seq that walks its arguments from the last to the first
SeqArgBackwards(args, k) == args[Len(args) - k]

\* for arg in args: the argument evaluated after k of them were
SeqArg(args, k) == args[k + 1]

SyncSeq(t) ==
    /\ Running(t)
    /\ IsForm(Top(t), "seq")
    /\ LET f == Top(t)
           args == Args(f.expr)
           tk == tasks[t]
           k == f.i
           result == IF k = 0 THEN None ELSE tk.rv
       IN tasks' = [tasks EXCEPT ![t] =
            IF k < Len(args)
            THEN CallT(tk, [f EXCEPT !.pc = "seq", !.i = k + 1],
                       NewFrame(SeqArg(args, k), f.env))
            ELSE ReturnT(tk, result)]
    /\ UNCHANGED <<program, otherVars, ref, envs, notifs, toolCalls, asyncVars>>
    /\ TraceFollows(t)

Finished(k) == tasks[k].st \in {"done", "raised", "cancelled"}

\* a par that hands back the results in reverse order
FutureResultsReversed(kids) ==
    L([j \in 1..Len(kids) |-> tasks[kids[Len(kids) + 1 - j]].rv])

\* [future.result() for future in futures], every future having a result
FutureResults(kids) ==
    L([j \in 1..Len(kids) |-> tasks[kids[j]].rv])

\* par: submit every branch to a ThreadPoolExecutor, then take the results in
\* submission order; leaving the `with` block waits for every worker
SyncPar(t) ==
    /\ Running(t)
    /\ IsForm(Top(t), "par")
    /\ LET f == Top(t)
           args == Args(f.expr)
           tk == tasks[t]
           n == Len(args)
       IN CASE f.pc \in {"start", "par_submit"} ->
                 IF n = 0
                 THEN tasks' = [tasks EXCEPT ![t] = ReturnT(tk, L(<<>>))]
                 ELSE tasks' = Append(
                        [tasks EXCEPT ![t] =
                            StayT(tk, [f EXCEPT
                                !.pc = IF f.i + 1 = n THEN "par_join" ELSE "par_submit",
                                !.i = IF f.i + 1 = n THEN 0 ELSE f.i + 1,
                                !.kids = Append(f.kids, Len(tasks) + 1)])],
                        [NewTask(args[f.i + 1], f.env) EXCEPT !.parent = t, !.kind = "par"])
            [] f.pc = "par_join" ->
                 /\ Finished(f.kids[f.i + 1])
                 /\ tasks' = [tasks EXCEPT ![t] =
                      IF tasks[f.kids[f.i + 1]].st = "raised"
                      THEN StayT(tk, [f EXCEPT !.pc = "par_exit",
                                               !.pend = tasks[f.kids[f.i + 1]].exc])
                      ELSE IF f.i + 1 = n
                           THEN ReturnT(tk, FutureResults(f.kids))
                           ELSE StayT(tk, [f EXCEPT !.i = f.i + 1])]
            [] f.pc = "par_exit" ->
                 /\ \A j \in 1..n : Finished(f.kids[j])
                 /\ tasks' = [tasks EXCEPT ![t] = RaiseT(tk, f.pend)]
            [] OTHER -> FALSE
    /\ UNCHANGED <<program, otherVars, ref, envs, notifs, toolCalls, asyncVars>>
    /\ TraceFollows(t)

SyncIf(t) ==
    /\ Running(t)
    /\ IsForm(Top(t), "if")
    /\ LET f == Top(t)
           args == Args(f.expr)
           tk == tasks[t]
           indexError == RaiseT(tk, Err("IndexError", "list index out of range"))
       IN tasks' = [tasks EXCEPT ![t] =
            CASE f.pc = "start" ->
                   IF Len(args) = 0 THEN indexError
                   ELSE CallT(tk, [f EXCEPT !.pc = "if_cond"], NewFrame(args[1], f.env))
              [] f.pc = "if_cond" ->
                   IF Truthy(tk.rv)
                   THEN IF Len(args) < 2 THEN indexError
                        ELSE CallT(tk, [f EXCEPT !.pc = "ret"], NewFrame(args[2], f.env))
                   ELSE IF Len(args) > 2
                        THEN CallT(tk, [f EXCEPT !.pc = "ret"], NewFrame(args[3], f.env))
                        ELSE ReturnT(tk, None)
              [] OTHER -> ReturnT(tk, tk.rv)]
    /\ UNCHANGED <<program, otherVars, ref, envs, notifs, toolCalls, asyncVars>>
    /\ TraceFollows(t)

\* handle: (handle error_var form fallback_form), the try part
SyncHandle(t) ==
    /\ Running(t)
    /\ IsForm(Top(t), "handle")
    /\ LET f == Top(t)
           args == Args(f.expr)
           tk == tasks[t]
       IN tasks' = [tasks EXCEPT ![t] =
            IF f.pc = "start"
            THEN IF Len(args) # 3
                 THEN RaiseT(tk, Err("TypeError", "handle needs 3 arguments"))
                 ELSE IF ~IsStr(args[1])
                      THEN RaiseT(tk, Err("TypeError", "error variable must be a string"))
                      ELSE CallT(tk, [f EXCEPT !.pc = "handle_try"], NewFrame(args[2], f.env))
            ELSE ReturnT(tk, tk.rv)]
    /\ UNCHANGED <<program, otherVars, ref, envs, notifs, toolCalls, asyncVars>>
    /\ TraceFollows(t)

\* an error record that does not name the class of the error
ErrorInfoUntyped(e, form) ==
    [t |-> "dict", type |-> "Exception", message |-> e.msg, original_expression |-> form]

\* the record bound to error_var
ErrorInfo(e, form) ==
    [t |-> "dict", type |-> e.type, message |-> e.msg, original_expression |-> form]

\* handle: the except clause. The error of form is caught, a child environment
\* binds error_var to the error record, and fallback_form is evaluated in it.
SyncHandleCatch(t) ==
    /\ tasks[t].st = "run"
    /\ tasks[t].exc # NoExc
    /\ tasks[t].stack # <<>>
    /\ Top(t).pc = "handle_try"
    /\ LET f == Top(t)
           args == Args(f.expr)
           tk == tasks[t]
           error_env == Len(envs) + 1
       IN /\ envs' = Define(Append(envs, NewEnv(f.env)), error_env,
                            args[1].s, ErrorInfo(tk.exc, args[2]))
          /\ tasks' = [tasks EXCEPT ![t] =
                CallT([tk EXCEPT !.exc = NoExc],
                      [f EXCEPT !.pc = "ret", !.env2 = error_env],
                      NewFrame(args[3], error_env))]
    /\ UNCHANGED <<program, otherVars, ref, notifs, toolCalls, asyncVars>>
    /\ TraceFollows(t)

\* set: (set var_name value)
SyncSet(t) ==
    /\ Running(t)
    /\ IsForm(Top(t), "set")
    /\ LET f == Top(t)
           args == Args(f.expr)
           tk == tasks[t]
           r == EnvSet(envs, f.env, args[1].s, tk.rv)
       IN IF f.pc = "start"
          THEN /\ tasks' = [tasks EXCEPT ![t] =
                    IF Len(args) # 2
                    THEN RaiseT(tk, Err("TypeError", "set needs 2 arguments"))
                    ELSE IF ~IsStr(args[1])
                         THEN RaiseT(tk, Err("TypeError", "variable name must be a string"))
                         ELSE CallT(tk, [f EXCEPT !.pc = "set_val"], NewFrame(args[2], f.env))]
               /\ envs' = envs
          ELSE /\ envs' = r.envs
               /\ tasks' = [tasks EXCEPT ![t] =
                    IF r.ok THEN ReturnT(tk, tk.rv)
                    ELSE RaiseT(tk, Err("NameError", args[1].s))]
    /\ UNCHANGED <<program, otherVars, ref, notifs, toolCalls, asyncVars>>
    /\ TraceFollows(t)

\* a loop that runs one iteration too many
WhileContinuesOffByOne(count, max) == count <= max

\* `while iteration_count < max_iterations`
WhileContinues(count, max) == count < max

\* max_iterations <= 0 is false
Positive(m) == IF IsHalf(m) THEN m.n >= 0 ELSE NumOf(m) > 0

\* int(max_iterations) of a positive number: a float is truncated
PyInt(m) == NumOf(m)

\* while: the checks of max_iterations and the first test of the loop
WhileEnter(tk, f, m) ==
    IF ~NumLike(m) \/ ~Positive(m)
    THEN RaiseT(tk, Err("TypeError", "max_iterations must be a positive number"))
    ELSE IF PyInt(m) > WhileHardLimit
         THEN RaiseT(tk, Err("ValueError", "max_iterations exceeds the limit"))
         ELSE IF WhileContinues(0, PyInt(m))
              THEN CallT(tk, [f EXCEPT !.pc = "while_cond", !.max = PyInt(m), !.i = 0,
                                       !.acc = None],
                         NewFrame(Args(f.expr)[1], f.env))
              ELSE ReturnT(tk, None)

\* while: (while condition body [max_iterations])
SyncWhile(t) ==
    /\ Running(t)
    /\ IsForm(Top(t), "while")
    /\ LET f == Top(t)
           args == Args(f.expr)
           tk == tasks[t]
       IN tasks' = [tasks EXCEPT ![t] =
            CASE f.pc = "start" ->
                   IF Len(args) < 2 \/ Len(args) > 3
                   THEN RaiseT(tk, Err("TypeError", "while needs 2-3 arguments"))
                   ELSE IF Len(args) = 2 THEN WhileEnter(tk, f, I(WhileDefaultMax))
                   ELSE IF args[3].t = "int" THEN WhileEnter(tk, f, args[3])
                   ELSE CallT(tk, [f EXCEPT !.pc = "while_max"], NewFrame(args[3], f.env))
              [] f.pc = "while_max" -> WhileEnter(tk, f, tk.rv)
              [] f.pc = "while_cond" ->
                   IF ~Truthy(tk.rv) THEN ReturnT(tk, f.acc)
                   ELSE CallT(tk, [f EXCEPT !.pc = "while_body"], NewFrame(args[2], f.env))
              [] OTHER ->
                   IF WhileContinues(f.i + 1, f.max)
                   THEN CallT(tk, [f EXCEPT !.pc = "while_cond", !.i = f.i + 1, !.acc = tk.rv],
                              NewFrame(args[1], f.env))
                   ELSE ReturnT(tk, tk.rv)]
    /\ UNCHANGED <<program, otherVars, ref, envs, notifs, toolCalls, asyncVars>>
    /\ TraceFollows(t)

\* +: (+ a b ...)
SyncPlus(t) ==
    /\ Running(t)
    /\ IsForm(Top(t), "+")
    /\ LET f == Top(t)
           args == Args(f.expr)
           tk == tasks[t]
           sum == IF f.i = 1 THEN [ok |-> TRUE, val |-> tk.rv] ELSE PyAdd(f.acc, tk.rv)
       IN tasks' = [tasks EXCEPT ![t] =
            IF f.pc = "start"
            THEN IF Len(args) < 2
                 THEN RaiseT(tk, Err("TypeError", "+ needs at least 2 arguments"))
                 ELSE CallT(tk, [f EXCEPT !.pc = "plus", !.i = 1], NewFrame(args[1], f.env))
            ELSE IF ~sum.ok
                 THEN RaiseT(tk, Err("TypeError", "unsupported operand types for +"))
                 ELSE IF f.i < Len(args)
                      THEN CallT(tk, [f EXCEPT !.i = f.i + 1, !.acc = sum.val],
                                 NewFrame(args[f.i + 1], f.env))
                      ELSE ReturnT(tk, sum.val)]
    /\ UNCHANGED <<program, otherVars, ref, envs, notifs, toolCalls, asyncVars>>
    /\ TraceFollows(t)

\* <: (< a b)
SyncLt(t) ==
    /\ Running(t)
    /\ IsForm(Top(t), "<")
    /\ LET f == Top(t)
           args == Args(f.expr)
           tk == tasks[t]
           r == PyLt(f.acc, tk.rv)
       IN tasks' = [tasks EXCEPT ![t] =
            CASE f.pc = "start" ->
                   IF Len(args) # 2
                   THEN RaiseT(tk, Err("TypeError", "< needs 2 arguments"))
                   ELSE CallT(tk, [f EXCEPT !.pc = "lt_a"], NewFrame(args[1], f.env))
              [] f.pc = "lt_a" ->
                   CallT(tk, [f EXCEPT !.pc = "lt_b", !.acc = tk.rv], NewFrame(args[2], f.env))
              [] OTHER ->
                   IF r.ok THEN ReturnT(tk, r.val)
                   ELSE RaiseT(tk, Err("TypeError", "< not supported between these types"))]
    /\ UNCHANGED <<program, otherVars, ref, envs, notifs, toolCalls, asyncVars>>
    /\ TraceFollows(t)

\* a let that evaluates its binding expressions in the new scope (let* semantics)
LetBindingEnvInner(f) == f.env2

\* the environment a let evaluates its binding expressions in: the outer one
LetBindingEnv(f) == f.env

\* let: the loop over the bindings, k of them done, then the body in new_env
LetNext(tk, f, k) ==
    LET bindings_list == Args(f.expr)[1]
        body == Args(f.expr)[2]
        binding == bindings_list.items[k + 1]
    IN IF k = Len(bindings_list.items)
       THEN CallT(tk, [f EXCEPT !.pc = "ret"], NewFrame(body, f.env2))
       ELSE IF ~IsList(binding) \/ Len(binding.items) # 2
            THEN RaiseT(tk, Err("TypeError", "a let binding must be [name, value]"))
            ELSE IF ~IsStr(binding.items[1])
                 THEN RaiseT(tk, Err("TypeError", "variable name must be a string"))
                 ELSE CallT(tk, [f EXCEPT !.pc = "let_bind", !.i = k + 1],
                            NewFrame(binding.items[2], LetBindingEnv(f)))

\* let: (let ((name expr)*) body)
SyncLet(t) ==
    /\ Running(t)
    /\ IsForm(Top(t), "let")
    /\ LET f == Top(t)
           args == Args(f.expr)
           tk == tasks[t]
           new_env == Len(envs) + 1
       IN CASE f.pc = "start" /\ Len(args) < 2 ->
                 /\ tasks' = [tasks EXCEPT ![t] =
                        RaiseT(tk, Err("IndexError", "list index out of range"))]
                 /\ envs' = envs
            [] f.pc = "start" /\ Len(args) >= 2 ->
                 /\ envs' = Append(envs, NewEnv(f.env))
                 /\ tasks' = [tasks EXCEPT ![t] =
                        IF ~IsList(args[1])
                        THEN RaiseT(tk, Err("TypeError", "let bindings must be a list"))
                        ELSE LetNext(tk, [f EXCEPT !.env2 = new_env], 0)]
            [] f.pc = "let_bind" ->
                 /\ envs' = Define(envs, f.env2, args[1].items[f.i].items[1].s, tk.rv)
                 /\ tasks' = [tasks EXCEPT ![t] = LetNext(tk, f, f.i)]
            [] OTHER ->
                 /\ tasks' = [tasks EXCEPT ![t] = ReturnT(tk, tk.rv)]
                 /\ envs' = envs
    /\ UNCHANGED <<program, otherVars, ref, notifs, toolCalls, asyncVars>>
    /\ TraceFollows(t)

\* notify: prints the message and returns it
SyncNotify(t) ==
    /\ Running(t)
    /\ IsForm(Top(t), "notify")
    /\ LET f == Top(t)
           args == Args(f.expr)
           tk == tasks[t]
       IN IF f.pc = "start"
          THEN /\ tasks' = [tasks EXCEPT ![t] =
                    IF Len(args) = 0
                    THEN RaiseT(tk, Err("IndexError", "list index out of range"))
                    ELSE CallT(tk, [f EXCEPT !.pc = "notify"], NewFrame(args[1], f.env))]
               /\ notifs' = notifs
          ELSE /\ notifs' = Append(notifs, tk.rv)
               /\ tasks' = [tasks EXCEPT ![t] = ReturnT(tk, tk.rv)]
    /\ UNCHANGED <<program, otherVars, ref, envs, toolCalls, asyncVars>>
    /\ TraceFollows(t)

\* calc: never raises, a failing computation yields an error string
SyncCalc(t) ==
    /\ Running(t)
    /\ IsForm(Top(t), "calc")
    /\ LET f == Top(t)
           args == Args(f.expr)
           tk == tasks[t]
       IN tasks' = [tasks EXCEPT ![t] =
            IF f.pc = "start"
            THEN IF Len(args) = 0
                 THEN RaiseT(tk, Err("IndexError", "list index out of range"))
                 ELSE CallT(tk, [f EXCEPT !.pc = "calc"], NewFrame(args[1], f.env))
            ELSE ReturnT(tk, CalcSync(tk.rv))]
    /\ UNCHANGED <<program, otherVars, ref, envs, notifs, toolCalls, asyncVars>>
    /\ TraceFollows(t)

\* search: the dummy result when the MCP manager is not initialized or has
\* no search tool, else what the MCP search tool and the extractor give
SyncSearch(t) ==
    /\ Running(t)
    /\ IsForm(Top(t), "search")
    /\ LET f == Top(t)
           args == Args(f.expr)
           tk == tasks[t]
       IN IF f.pc = "start"
          THEN tasks' = [tasks EXCEPT ![t] =
                    IF Len(args) = 0
                    THEN RaiseT(tk, Err("IndexError", "list index out of range"))
                    ELSE CallT(tk, [f EXCEPT !.pc = "search"], NewFrame(args[1], f.env))]
          ELSE \E r \in {S("dummy search result: " \o StrOf(tk.rv)),
                          S("mcp search result"), S("search error")} :
                  tasks' = [tasks EXCEPT ![t] = ReturnT(tk, r)]
    /\ UNCHANGED <<program, otherVars, ref, envs, notifs, toolCalls, asyncVars>>
    /\ TraceFollows(t)

\* db-query: prints the query and returns the dummy result
SyncDbQuery(t) ==
    /\ Running(t)
    /\ IsForm(Top(t), "db-query")
    /\ LET f == Top(t)
           args == Args(f.expr)
           tk == tasks[t]
       IN tasks' = [tasks EXCEPT ![t] =
            IF f.pc = "start"
            THEN IF Len(args) = 0
                 THEN RaiseT(tk, Err("IndexError", "list index out of range"))
                 ELSE CallT(tk, [f EXCEPT !.pc = "db_query"], NewFrame(args[1], f.env))
            ELSE ReturnT(tk, S("db result: " \o StrOf(tk.rv)))]
    /\ UNCHANGED <<program, otherVars, ref, envs, notifs, toolCalls, asyncVars>>
    /\ TraceFollows(t)

IsToolCall(f) ==
    /\ IsList(f.expr)
    /\ Len(f.expr.items) > 0
    /\ ~(IsStr(f.expr.items[1]) /\ f.expr.items[1].s \in SyncForms)

\* any other operator: evaluate the arguments, then ToolExecutor.execute_tool
SyncTool(t) ==
    /\ Running(t)
    /\ IsToolCall(Top(t))
    /\ LET f == Top(t)
           args == Args(f.expr)
           tk == tasks[t]
           kwargs == IF f.pc = "start" THEN <<>> ELSE Append(f.acc, tk.rv)
           name == OpName(f.expr.items[1])
       IN IF f.i < Len(args)
          THEN /\ tasks' = [tasks EXCEPT ![t] =
                    CallT(tk, [f EXCEPT !.pc = "tool_args", !.i = f.i + 1, !.acc = kwargs],
                          NewFrame(args[f.i + 1], f.env))]
               /\ toolCalls' = toolCalls
          ELSE \E works \in BOOLEAN :
               /\ name \notin ProviderTools => works
               /\ toolCalls' = Append(toolCalls, [tool |-> name, kwargs |-> kwargs])
               /\ tasks' = [tasks EXCEPT ![t] = ToolOutcome(tk, ExecuteTool(name, works))]
    /\ UNCHANGED <<program, otherVars, ref, envs, notifs, asyncVars>>
    /\ TraceFollows(t)

\* the tool dispatch's outer except clause: an error raised while an argument
\* was evaluated becomes the string "tool processing error: ..."
SyncToolCatch(t) ==
    /\ tasks[t].st = "run"
    /\ tasks[t].exc # NoExc
    /\ tasks[t].stack # <<>>
    /\ Top(t).pc = "tool_args"
    /\ tasks' = [tasks EXCEPT ![t] =
          ReturnT([@ EXCEPT !.exc = NoExc], S("tool processing error: " \o @.exc.msg))]
    /\ UNCHANGED <<program, otherVars, ref, envs, notifs, toolCalls, asyncVars>>
    /\ TraceFollows(t)

\* the except clause of _evaluate_basic: the error leaves the call (re-raise)
SyncUnwind(t) ==
    /\ tasks[t].st = "run"
    /\ tasks[t].exc # NoExc
    /\ tasks[t].stack # <<>>
    /\ Top(t).pc \notin {"handle_try", "tool_args"}
    /\ LET s == SubSeq(tasks[t].stack, 1, Len(tasks[t].stack) - 1)
       IN tasks' = [tasks EXCEPT ![t] =
            [@ EXCEPT !.stack = s, !.st = IF s = <<>> THEN "raised" ELSE "run"]]
    /\ UNCHANGED <<program, otherVars, ref, envs, notifs, toolCalls, asyncVars>>
    /\ TraceFollows(t)

SyncNext ==
    \/ SyncEvaluateWithContext
    \/ \E t \in DOMAIN tasks : SyncAtom(t)
    \/ \E t \in DOMAIN tasks : SyncPlan(t)
    \/ \E t \in DOMAIN tasks : SyncSeq(t)
    \/ \E t \in DOMAIN tasks : SyncPar(t)
    \/ \E t \in DOMAIN tasks : SyncIf(t)
    \/ \E t \in DOMAIN tasks : SyncHandle(t)
    \/ \E t \in DOMAIN tasks : SyncHandleCatch(t)
    \/ \E t \in DOMAIN tasks : SyncSet(t)
    \/ \E t \in DOMAIN tasks : SyncWhile(t)
    \/ \E t \in DOMAIN tasks : SyncPlus(t)
    \/ \E t \in DOMAIN tasks : SyncLt(t)
    \/ \E t \in DOMAIN tasks : SyncLet(t)
    \/ \E t \in DOMAIN tasks : SyncNotify(t)
    \/ \E t \in DOMAIN tasks : SyncCalc(t)
    \/ \E t \in DOMAIN tasks : SyncSearch(t)
    \/ \E t \in DOMAIN tasks : SyncDbQuery(t)
    \/ \E t \in DOMAIN tasks : SyncTool(t)
    \/ \E t \in DOMAIN tasks : SyncToolCatch(t)
    \/ \E t \in DOMAIN tasks : SyncUnwind(t)

----------------------------------------------------------------------------
(* The programs evaluated: every form over a set of leaves, and the nested *)
(* forms the properties below are about.                                   *)

Form(op, args) == L(<<S(op)>> \o args)
Notify(x) == Form("notify", <<x>>)
SetF(var, x) == Form("set", <<S(var), x>>)
Plus(a, b) == Form("+", <<a, b>>)
Less(a, b) == Form("<", <<a, b>>)
Seq2(a, b) == Form("seq", <<a, b>>)
Par2(a, b) == Form("par", <<a, b>>)
Par3(a, b, c) == Form("par", <<a, b, c>>)
Let1(var, x, body) == Form("let", <<L(<<L(<<S(var), x>>)>>), body>>)
Let2(v1, x1, v2, x2, body) ==
    Form("let", <<L(<<L(<<S(v1), x1>>), L(<<S(v2), x2>>)>>), body>>)
Handle(var, form, fallback) == Form("handle", <<S(var), form, fallback>>)
While(cond, body, n) == Form("while", <<cond, body, I(n)>>)
Calc(str) == Form("calc", <<S(str)>>)
Search(q) == Form("search", <<S(q)>>)
DbQuery(q) == Form("db-query", <<S(q)>>)

Incr == SetF("x", Plus(S("x"), I(1)))

\* values of max_iterations besides the small positive integers
OddMaxIterations ==
    {I(0), I(0 - 5), I(20000), Fl(2), FlHalf(0), FlHalf(2), Fl(0), S("many")}

\* leaves that raise: set of an undefined name (NameError), notify without an
\* argument (IndexError), + on a number and a string (TypeError)
RaisingLeaves ==
    {SetF("y", I(1)), Form("notify", <<>>), Plus(I(1), S("a"))}

\* leaves that return a value
QuietLeaves ==
    {I(1), S("x"), Notify(S("a")), Notify(S("b")), Incr,
     Form("undefined_op", <<I(1)>>), Form("ext_tool", <<S("q")>>),
     Form("__import__", <<S("os")>>)}

SyncLeaves == QuietLeaves \cup RaisingLeaves

Conds == {Less(I(1), I(2)), Less(S("x"), I(2)), I(0)}

\* control forms with too few or too many arguments
MalformedForms ==
    {Form("if", <<>>), Form("if", <<Notify(S("a"))>>),
     Form("if", <<I(1), I(1), I(2), Notify(S("a"))>>),
     Form("let", <<L(<<>>)>>),
     Form("let", <<L(<<L(<<S("y"), Notify(S("a"))>>)>>)>>),
     Form("let", <<L(<<>>), I(1), Notify(S("a"))>>),
     Form("set", <<S("x")>>), Form("set", <<S("x"), Notify(S("a")), I(1)>>),
     Form("while", <<Notify(S("a"))>>),
     Form("while", <<Less(I(1), I(2)), Notify(S("a")), I(1), I(1)>>),
     Form("handle", <<S("e"), Notify(S("a"))>>),
     Form("handle", <<S("e"), Notify(S("a")), I(1), I(2)>>),
     Form("+", <<>>), Form("+", <<Notify(S("a"))>>),
     Form("<", <<Notify(S("a"))>>), Form("<", <<I(1), I(2), Notify(S("a"))>>)}

SyncPrograms ==
    SyncLeaves
    \cup MalformedForms
    \cup {Form("plan", <<a>>) : a \in SyncLeaves}
    \cup {Seq2(a, b) : a, b \in SyncLeaves}
    \cup {Par2(a, b) : a, b \in SyncLeaves}
    \cup {Par3(a, b, c) : a, b, c \in {Notify(S("a")), Incr, SetF("y", I(1))}}
    \cup {Form("if", <<c, a, b>>) : c \in Conds, a, b \in {Notify(S("a")), Incr, I(1)}}
    \cup {Form("if", <<c, a>>) : c \in Conds, a \in {Notify(S("a"))}}
    \cup {Let1("x", a, b) : a, b \in SyncLeaves}
    \cup {Let2("x", a, "y", b, Plus(S("x"), S("y"))) : a, b \in {I(1), S("x"), Incr}}
    \cup {Handle("e", a, b) : a \in SyncLeaves, b \in SyncLeaves \cup {S("e")}}
    \cup {While(c, b, n) : c \in Conds, b \in SyncLeaves, n \in 1..MaxIter}
    \cup {Form("while", <<Less(S("x"), I(2)), Incr>>)}
    \* nested scopes
    \cup {Let1("x", I(1), Let1("x", I(2), b)) : b \in {S("x"), Incr}}
    \cup {Let1("x", I(1), Seq2(Let1("x", I(2), b), S("x"))) : b \in {S("x"), Incr}}
    \cup {Let1("y", I(1), Seq2(b, S("y"))) : b \in {Incr, SetF("y", I(5))}}
    \cup {Handle("e", Seq2(a, b), S("e")) : a \in {Notify(S("a")), Incr}, b \in RaisingLeaves}
    \cup {Seq2(Handle("e", a, Notify(S("b"))), S("e")) : a \in SyncLeaves}
    \cup {Handle("e", Par2(a, b), S("e")) : a, b \in RaisingLeaves \cup {Notify(S("a"))}}
    \cup {Seq2(Notify(S("a")), Seq2(Form("__import__", <<S("os")>>), Notify(S("b"))))}
    \cup {Let2("x", I(1), "y", S("x"), S("y"))}
    \* max_iterations that are not positive integers up to the limit
    \cup {Form("while", <<Less(I(1), I(2)), Notify(S("a")), m>>) : m \in OddMaxIterations}
    \* calc, and tool calls whose argument raises
    \cup {Calc("1+1"), Calc("x+"), Form("calc", <<>>), Seq2(Calc("2+2"), Notify(S("a")))}
    \cup {Form(op, <<SetF("y", I(1))>>) : op \in {"undefined_op", "ext_tool"}}
    \* search and db-query
    \cup {Search("q"), DbQuery("q"), Form("search", <<>>), Form("db-query", <<>>),
          Seq2(Search("q"), DbQuery("q")), Par2(Search("q"), DbQuery("q"))}
    \cup {Handle("e", Form("undefined_op", <<a>>), Notify(S("caught")))
             : a \in {I(1), SetF("y", I(1))}}

\* the caller's environment: empty, or x defined beforehand (as the tests do)
RootBindings == {NoBindings, [n \in {"x"} |-> I(0)]}

\* no text is being parsed
ParseIdle ==
    /\ text = <<>>
    /\ pst = "off"
    /\ pres = None
    /\ shown = <<>>

\* the logger is empty and is not followed
TraceOff ==
    /\ traced = FALSE
    /\ path = <<>>
    /\ entries = <<>>
    /\ open = <<>>
    /\ starter = 0

\* the logger's entries are not analysed
TreeIdle ==
    /\ durs = <<>>
    /\ meta = <<>>
    /\ analysed = FALSE

\* no call of the agent service
ServiceIdle ==
    /\ svc = [pc |-> "idle"]
    /\ history = <<>>

\* no expression given to the validators
GateIdle == gate = [pc |-> "idle"]

OthersIdle == ParseIdle /\ TreeIdle /\ ServiceIdle /\ GateIdle

SyncInit ==
    /\ OthersIdle
    /\ TraceOff
    /\ program \in SyncPrograms
    /\ \E b \in RootBindings :
          /\ envs = <<[parent |-> 0, b |-> b]>>
          /\ ref = [b |-> b, out |-> None]
    /\ tasks = <<>>
    /\ notifs = <<>>
    /\ toolCalls = <<>>
    /\ ready = <<>>
    /\ maxPar = 0
    /\ sem = 0
    /\ active = {}
    /\ isAdmin = FALSE

SpecSync == SyncInit /\ [][SyncNext]_vars

\* the threads of the evaluator keep being scheduled: while some thread can
\* take a step, a step is taken
SpecSyncFair == SyncInit /\ [][SyncNext]_vars /\ WF_vars(SyncNext)

----------------------------------------------------------------------------
(* AsyncContextualEvaluator (core/async_evaluator.py): the cooperative     *)
(* evaluator.  The event loop runs one callback at a time, taken from the  *)
(* head of ready: a step of a task, or the done-callback gather attached   *)
(* to a child.  A task runs until it awaits something not yet done.        *)

StepOf(t) == [k |-> "step", t |-> t]
DoneOf(t) == [k |-> "done", t |-> t]

CancelledError == Err("CancelledError", "")

\* ToolWhitelist: allowed_tools, admin_only_tools and is_allowed
AllowedTools == {"notify", "calc", "search", "db-query"}
AdminOnlyTools == {"exec", "shell", "file-write", "system"}
IsAllowed(tool, admin) ==
    IF tool \in AdminOnlyTools THEN admin ELSE tool \in AllowedTools

\* SafeSymPyCalculator.validate_expression on the calc strings the programs
\* use: the empty string and the strings matching a forbidden pattern fail
ForbiddenCalcStrings == {"", "__import__('os')", "eval(1)"}
ValidateExpression(str) == str \notin ForbiddenCalcStrings

ControlStructures == {"seq", "par", "if", "let", "plan"}

RECURSIVE ValidateRecursive(_, _)
\* SecurityValidator._validate_recursive(expr, is_admin)
ValidateRecursive(expr, admin) ==
    IF ~IsList(expr) THEN TRUE
    ELSE IF Len(expr.items) = 0 THEN TRUE
    ELSE LET op == expr.items[1]
             n == Len(expr.items)
         IN /\ (IsStr(op) /\ op.s \notin ControlStructures) => IsAllowed(op.s, admin)
            /\ (op = S("calc") /\ n > 1 /\ IsStr(expr.items[2]))
                  => ValidateExpression(expr.items[2].s)
            /\ IF op = S("let") /\ n >= 3
               THEN /\ IsList(expr.items[2]) =>
                         \A i \in DOMAIN expr.items[2].items :
                            LET bnd == expr.items[2].items[i]
                            IN (IsList(bnd) /\ Len(bnd.items) >= 2)
                                  => ValidateRecursive(bnd.items[2], admin)
                    /\ ValidateRecursive(expr.items[3], admin)
               ELSE \A i \in 2..n : ValidateRecursive(expr.items[i], admin)

BindPcs == {"bind_start", "bind_define"}

\* task t is the one the event loop is about to step, and it is not cancelled
AHead(t) ==
    /\ ready # <<>>
    /\ Head(ready) = StepOf(t)
    /\ tasks[t].st = "run"
    /\ tasks[t].stack # <<>>

ACur(t, name) ==
    /\ AHead(t)
    /\ ~tasks[t].cancel
    /\ Top(t).pc \notin BindPcs
    /\ IsForm(Top(t), name)

\* an exception leaves the coroutine of the task: no frame of
\* _evaluate_basic_async below the raising one is inside a try
ARaise(tk, e) ==
    [tk EXCEPT !.stack = <<>>, !.exc = e,
               !.st = IF e = CancelledError THEN "cancelled" ELSE "raised"]

\* the task suspended on a sleep ("sleep") or on the executor's future ("exec")
ASuspendIo(tk, f, on) == [StayT(tk, f) EXCEPT !.wait = on]

\* asyncio.sleep(0.1) of search and asyncio.sleep(0.05) of db-query, in
\* units of 0.05 s
SearchSleep == 2
DbQuerySleep == 1

\* the tasks waiting for a timer
Sleepers == {k \in DOMAIN tasks : tasks[k].st = "run" /\ tasks[k].wait = "sleep"}

\* the order in which the pending sleeps were started: a sleep is numbered
\* after every sleep still pending
NextTicket ==
    LET used == {Top(k).i : k \in Sleepers}
    IN IF used = {} THEN 1 ELSE 1 + CHOOSE m \in used : \A j \in used : j <= m

\* the state after task t became tk2 in its step, spawned the tasks `spawned`
\* (create_task schedules their first step) and registered them when reg:
\* a suspended or finished task leaves the head of ready, a finished child
\* schedules the done-callback of the gather waiting for it, and the end of
\* the top-level task runs the exit of `async with` and the finally clause
ACommitOn(ts, rq, t, tk2, spawned, reg) ==
    LET n == Len(ts)
        gone == tk2.st # "run" \/ tk2.wait # "none"
    IN /\ tasks' = [ts EXCEPT ![t] = tk2] \o spawned
       /\ ready' = (IF gone THEN Tail(rq) ELSE rq)
                   \o (IF tk2.st # "run" /\ tk2.parent # 0 THEN <<DoneOf(t)>> ELSE <<>>)
                   \o [i \in 1..Len(spawned) |-> StepOf(n + i)]
       /\ sem' = IF t = 1 /\ tk2.st # "run" THEN sem + 1 ELSE sem
       /\ active' = (IF t = 1 /\ tk2.st # "run" THEN active \ {1} ELSE active)
                    \cup (IF reg THEN (n + 1)..(n + Len(spawned)) ELSE {})

ACommit(t, tk2, spawned, reg) == ACommitOn(tasks, ready, t, tk2, spawned, reg)

AStep(t, tk2) == ACommit(t, tk2, <<>>, FALSE)

\* evaluate_with_context(expr, env): the security gate, then the semaphore
AsyncEvaluateWithContext ==
    /\ maxPar > 0
    /\ tasks = <<>>
    /\ IF ValidateRecursive(program, isAdmin)
       THEN /\ tasks' = <<NewTask(program, 1)>>
            /\ ready' = <<StepOf(1)>>
            /\ sem' = sem - 1
       ELSE /\ tasks' = <<ARaise(NewTask(program, 1), Err("SecurityError", "validation failed"))>>
            /\ UNCHANGED <<ready, sem>>
    /\ UNCHANGED <<program, otherVars, ref, traceVars, envs, notifs, toolCalls, maxPar, active, isAdmin>>

\* atoms and the empty list
AsyncAtom(t) ==
    /\ AHead(t)
    /\ ~tasks[t].cancel
    /\ Top(t).pc \notin BindPcs
    /\ ~(IsList(Top(t).expr) /\ Len(Top(t).expr.items) > 0)
    /\ LET f == Top(t)
           found == IF IsStr(f.expr) THEN Lookup(envs, f.env, f.expr.s) ELSE NotFound
       IN AStep(t, ReturnT(tasks[t], IF found # NotFound THEN found ELSE f.expr))
    /\ UNCHANGED <<program, otherVars, ref, traceVars, envs, notifs, toolCalls, maxPar, isAdmin>>

AIndexError == Err("IndexError", "list index out of range")

AsyncPlan(t) ==
    /\ ACur(t, "plan")
    /\ LET f == Top(t)
           args == Args(f.expr)
           tk == tasks[t]
       IN AStep(t, IF f.pc = "start"
                   THEN IF Len(args) = 0 THEN ARaise(tk, AIndexError)
                        ELSE CallT(tk, [f EXCEPT !.pc = "ret"], NewFrame(args[1], f.env))
                   ELSE ReturnT(tk, tk.rv))
    /\ UNCHANGED <<program, otherVars, ref, traceVars, envs, notifs, toolCalls, maxPar, isAdmin>>

AsyncSeq(t) ==
    /\ ACur(t, "seq")
    /\ LET f == Top(t)
           args == Args(f.expr)
           tk == tasks[t]
           result == IF f.i = 0 THEN None ELSE tk.rv
       IN AStep(t, IF f.i < Len(args)
                   THEN CallT(tk, [f EXCEPT !.i = f.i + 1, !.pc = "seq"],
                              NewFrame(SeqArg(args, f.i), f.env))
                   ELSE ReturnT(tk, result))
    /\ UNCHANGED <<program, otherVars, ref, traceVars, envs, notifs, toolCalls, maxPar, isAdmin>>

AsyncIf(t) ==
    /\ ACur(t, "if")
    /\ LET f == Top(t)
           args == Args(f.expr)
           tk == tasks[t]
       IN AStep(t,
            CASE f.pc = "start" ->
                   IF Len(args) = 0 THEN ARaise(tk, AIndexError)
                   ELSE CallT(tk, [f EXCEPT !.pc = "if_cond"], NewFrame(args[1], f.env))
              [] f.pc = "if_cond" ->
                   IF Truthy(tk.rv)
                   THEN IF Len(args) < 2 THEN ARaise(tk, AIndexError)
                        ELSE CallT(tk, [f EXCEPT !.pc = "ret"], NewFrame(args[2], f.env))
                   ELSE IF Len(args) > 2
                        THEN CallT(tk, [f EXCEPT !.pc = "ret"], NewFrame(args[3], f.env))
                        ELSE ReturnT(tk, None)
              [] OTHER -> ReturnT(tk, tk.rv))
    /\ UNCHANGED <<program, otherVars, ref, traceVars, envs, notifs, toolCalls, maxPar, isAdmin>>

AsyncNotify(t) ==
    /\ ACur(t, "notify")
    /\ LET f == Top(t)
           args == Args(f.expr)
           tk == tasks[t]
       IN IF f.pc = "start"
          THEN /\ AStep(t, IF Len(args) = 0 THEN ARaise(tk, AIndexError)
                           ELSE CallT(tk, [f EXCEPT !.pc = "notify_msg"],
                                      NewFrame(args[1], f.env)))
               /\ notifs' = notifs
          ELSE /\ AStep(t, ReturnT(tk, tk.rv))
               /\ notifs' = Append(notifs, tk.rv)
    /\ UNCHANGED <<program, otherVars, ref, traceVars, envs, toolCalls, maxPar, isAdmin>>

\* search and db-query: evaluate the query, print, sleep, return a string
AsyncSleepTool(t, name, prefix, delay) ==
    /\ ACur(t, name)
    /\ LET f == Top(t)
           args == Args(f.expr)
           tk == tasks[t]
       IN AStep(t,
            CASE f.pc = "start" ->
                   IF Len(args) = 0 THEN ARaise(tk, AIndexError)
                   ELSE CallT(tk, [f EXCEPT !.pc = "tool_query"], NewFrame(args[1], f.env))
              [] f.pc = "tool_query" ->
                   ASuspendIo(tk, [f EXCEPT !.pc = "tool_sleep", !.acc = tk.rv,
                                            !.i = NextTicket, !.max = delay], "sleep")
              [] OTHER -> ReturnT(tk, S(prefix \o StrOf(f.acc))))
    /\ UNCHANGED <<program, otherVars, ref, traceVars, envs, notifs, toolCalls, maxPar, isAdmin>>

AsyncSearch(t) == AsyncSleepTool(t, "search", "search result: ", SearchSleep)

AsyncDbQuery(t) == AsyncSleepTool(t, "db-query", "db result: ", DbQuerySleep)

\* safe_sympy_calculator.calculate(str(expression)) in the executor: an int for
\* the expressions of CalcTable; its ValueError becomes the error string
CalcAsync(v) ==
    IF IsStr(v) /\ v.s \in DOMAIN CalcTable THEN I(CalcTable[v.s])
    ELSE IF v.t = "int" THEN v
    ELSE S("calc error")

AsyncCalc(t) ==
    /\ ACur(t, "calc")
    /\ LET f == Top(t)
           args == Args(f.expr)
           tk == tasks[t]
       IN AStep(t,
            CASE f.pc = "start" ->
                   IF Len(args) = 0 THEN ARaise(tk, AIndexError)
                   ELSE CallT(tk, [f EXCEPT !.pc = "calc_expr"], NewFrame(args[1], f.env))
              [] f.pc = "calc_expr" ->
                   ASuspendIo(tk, [f EXCEPT !.pc = "calc_run", !.acc = tk.rv], "exec")
              [] OTHER -> ReturnT(tk, CalcAsync(f.acc)))
    /\ UNCHANGED <<program, otherVars, ref, traceVars, envs, notifs, toolCalls, maxPar, isAdmin>>

\* the timer of a sleep fires and the loop schedules the sleeping task: a
\* sleep started earlier and no longer than this one fires before it
AsyncTimerFires(t) ==
    /\ t \in Sleepers
    /\ \A k \in Sleepers : ~(Top(k).i < Top(t).i /\ Top(k).max <= Top(t).max)
    /\ tasks' = [tasks EXCEPT ![t].wait = "none"]
    /\ ready' = Append(ready, StepOf(t))
    /\ UNCHANGED <<program, otherVars, ref, traceVars, envs, notifs, toolCalls, maxPar, sem, active, isAdmin>>

\* the executor's thread finishes the calculation, at any moment, and the
\* loop schedules the waiting task
AsyncExecutorDone(t) ==
    /\ tasks[t].st = "run"
    /\ tasks[t].wait = "exec"
    /\ tasks' = [tasks EXCEPT ![t].wait = "none"]
    /\ ready' = Append(ready, StepOf(t))
    /\ UNCHANGED <<program, otherVars, ref, traceVars, envs, notifs, toolCalls, maxPar, sem, active, isAdmin>>

AsyncForms == {"plan", "seq", "par", "if", "let", "notify", "search", "calc", "db-query"}

\* the final else: raise NotImplementedError
AsyncUnknown(t) ==
    /\ AHead(t)
    /\ ~tasks[t].cancel
    /\ Top(t).pc \notin BindPcs
    /\ IsList(Top(t).expr)
    /\ Len(Top(t).expr.items) > 0
    /\ ~(IsStr(Top(t).expr.items[1]) /\ Top(t).expr.items[1].s \in AsyncForms)
    /\ AStep(t, ARaise(tasks[t], Err("NotImplementedError", OpName(Top(t).expr.items[1]))))
    /\ UNCHANGED <<program, otherVars, ref, traceVars, envs, notifs, toolCalls, maxPar, isAdmin>>

\* Task.__step of a task whose cancellation was requested: CancelledError is
\* thrown into the coroutine, which no except clause of the evaluator catches
AsyncCancelled(t) ==
    /\ AHead(t)
    /\ tasks[t].cancel
    /\ AStep(t, ARaise([tasks[t] EXCEPT !.cancel = FALSE], CancelledError))
    /\ UNCHANGED <<program, otherVars, ref, traceVars, envs, notifs, toolCalls, maxPar, isAdmin>>

RECURSIVE CancelTask(_, _, _)
RECURSIVE CancelTasks(_, _, _)
\* task.cancel() on task k, in the tasks ts with the ready queue rq: a finished
\* task is left alone; a task waiting on a sleep or on the executor has that
\* future cancelled and is scheduled; a task waiting on a gather has the
\* children of the gather cancelled, and is itself marked when none of them
\* could be; a task already scheduled is marked
CancelTask(ts, rq, k) ==
    IF ts[k].st # "run" THEN [ts |-> ts, rq |-> rq]
    ELSE IF ts[k].wait \in {"sleep", "exec"}
    THEN [ts |-> [ts EXCEPT ![k].wait = "none", ![k].cancel = TRUE],
          rq |-> Append(rq, StepOf(k))]
    ELSE IF ts[k].wait = "gather"
    THEN LET kids == ts[k].stack[Len(ts[k].stack)].kids
         IN IF \E j \in DOMAIN kids : ts[kids[j]].st = "run"
            THEN CancelTasks(ts, rq, kids)
            ELSE [ts |-> [ts EXCEPT ![k].cancel = TRUE], rq |-> rq]
    ELSE [ts |-> [ts EXCEPT ![k].cancel = TRUE], rq |-> rq]

\* for task in tasks: if not task.done(): task.cancel()
CancelTasks(ts, rq, ks) ==
    IF ks = <<>> THEN [ts |-> ts, rq |-> rq]
    ELSE LET r == CancelTask(ts, rq, Head(ks))
         IN CancelTasks(r.ts, r.rq, Tail(ks))

\* the list asyncio.gather returns: the children's results in argument order
GatherResults(kids) == L([j \in DOMAIN kids |-> tasks[kids[j]].rv])

\* the tasks a par or a let spawns for the expressions xs, numbered from n + 1
SpawnTasks(xs, t, kind, proto) ==
    [j \in DOMAIN xs |->
        [NewTask(xs[j], 1) EXCEPT !.stack = <<proto[j]>>, !.parent = t, !.kind = kind]]

\* par: one task per branch, gather, and on an error cancel and re-raise
AsyncPar(t) ==
    /\ ACur(t, "par")
    /\ LET f == Top(t)
           args == Args(f.expr)
           tk == tasks[t]
           n == Len(tasks)
       IN CASE f.pc = "start" ->
                 IF Len(args) = 0
                 THEN AStep(t, ReturnT(tk, L(<<>>)))
                 ELSE ACommit(t,
                        [StayT(tk, [f EXCEPT !.pc = "par_wait", !.g = "pending",
                                     !.kids = [j \in DOMAIN args |-> n + j]])
                           EXCEPT !.wait = "gather"],
                        SpawnTasks(args, t, "par",
                                   [j \in DOMAIN args |-> NewFrame(args[j], f.env)]),
                        TRUE)
            [] f.pc = "par_wait" /\ f.g = "ok" ->
                 AStep(t, ReturnT(tk, GatherResults(f.kids)))
            [] f.pc = "par_wait" /\ f.g = "exc" /\ f.pend = CancelledError ->
                 AStep(t, ARaise(tk, CancelledError))
            [] f.pc = "par_wait" /\ f.g = "exc" /\ f.pend # CancelledError ->
                 LET r == CancelTasks(tasks, ready, f.kids)
                 IN ACommitOn(r.ts, r.rq, t, ARaise(tk, f.pend), <<>>, FALSE)
            [] OTHER -> FALSE
    /\ UNCHANGED <<program, otherVars, ref, traceVars, envs, notifs, toolCalls, maxPar, isAdmin>>

\* a binding of a let is a list [variable name, value expression]
GoodBinding(b) == IsList(b) /\ Len(b.items) = 2 /\ IsStr(b.items[1])

\* let: a new child scope, the bindings evaluated concurrently in the outer
\* environment by _process_binding, then the body in the new scope
AsyncLet(t) ==
    /\ ACur(t, "let")
    /\ LET f == Top(t)
           args == Args(f.expr)
           tk == tasks[t]
           n == Len(tasks)
           new_env == Len(envs) + 1
           typeError == ARaise(tk, Err("TypeError", "malformed let bindings"))
       IN CASE f.pc = "start" /\ Len(args) < 2 ->
                 AStep(t, ARaise(tk, AIndexError)) /\ envs' = envs
            [] f.pc = "start" /\ Len(args) >= 2 ->
                 /\ envs' = Append(envs, NewEnv(f.env))
                 /\ IF ~IsList(args[1]) THEN AStep(t, typeError)
                    ELSE LET bs == args[1].items
                         IN IF \E j \in DOMAIN bs : ~GoodBinding(bs[j])
                            THEN AStep(t, typeError)
                            ELSE IF bs = <<>>
                            THEN AStep(t, CallT(tk, [f EXCEPT !.pc = "ret", !.env2 = new_env],
                                                NewFrame(args[2], new_env)))
                            ELSE ACommit(t,
                                   [StayT(tk, [f EXCEPT !.pc = "let_wait", !.g = "pending",
                                                !.env2 = new_env,
                                                !.kids = [j \in DOMAIN bs |-> n + j]])
                                      EXCEPT !.wait = "gather"],
                                   SpawnTasks(bs, t, "bind",
                                      [j \in DOMAIN bs |->
                                         [NewFrame(bs[j].items[2], f.env) EXCEPT
                                            !.pc = "bind_start", !.acc = bs[j].items[1],
                                            !.env2 = new_env]]),
                                   FALSE)
            [] f.pc = "let_wait" /\ f.g = "ok" ->
                 /\ AStep(t, CallT(tk, [f EXCEPT !.pc = "ret"], NewFrame(args[2], f.env2)))
                 /\ envs' = envs
            [] f.pc = "let_wait" /\ f.g = "exc" ->
                 AStep(t, ARaise(tk, f.pend)) /\ envs' = envs
            [] f.pc = "ret" ->
                 AStep(t, ReturnT(tk, tk.rv)) /\ envs' = envs
            [] OTHER -> FALSE
    /\ UNCHANGED <<program, otherVars, ref, traceVars, notifs, toolCalls, maxPar, isAdmin>>

\* _process_binding(var, val_expr, parent_env, new_env, task_id)
AsyncProcessBinding(t) ==
    /\ AHead(t)
    /\ ~tasks[t].cancel
    /\ Top(t).pc \in BindPcs
    /\ LET f == Top(t)
           tk == tasks[t]
       IN IF f.pc = "bind_start"
          THEN /\ AStep(t, CallT(tk, [f EXCEPT !.pc = "bind_define"], NewFrame(f.expr, f.env)))
               /\ envs' = envs
          ELSE /\ AStep(t, ReturnT(tk, None))
               /\ envs' = Define(envs, f.env2, f.acc.s, tk.rv)
    /\ UNCHANGED <<program, otherVars, ref, traceVars, notifs, toolCalls, maxPar, isAdmin>>

\* the done-callback gather attached to child c (asyncio.tasks.gather,
\* return_exceptions=False): nothing when the gather is already resolved;
\* a cancelled or failed child resolves the gather with that error at once;
\* the last child to finish resolves it with the list of results
AsyncGatherDone(c) ==
    /\ ready # <<>>
    /\ Head(ready) = DoneOf(c)
    /\ LET p == tasks[c].parent
           f == Top(p)
           pending == /\ tasks[p].st = "run"
                      /\ tasks[p].wait = "gather"
                      /\ f.g = "pending"
                      /\ \E j \in DOMAIN f.kids : f.kids[j] = c
           wake(f2) == /\ tasks' = [tasks EXCEPT ![p] = [StayT(tasks[p], f2) EXCEPT !.wait = "none"]]
                       /\ ready' = Append(Tail(ready), StepOf(p))
       IN IF ~pending
          THEN tasks' = tasks /\ ready' = Tail(ready)
          ELSE IF tasks[c].st # "done"
          THEN wake([f EXCEPT !.g = "exc", !.pend = tasks[c].exc])
          ELSE IF f.i + 1 = Len(f.kids)
          THEN wake([f EXCEPT !.g = "ok", !.i = f.i + 1])
          ELSE /\ tasks' = [tasks EXCEPT ![p] = StayT(tasks[p], [f EXCEPT !.i = f.i + 1])]
               /\ ready' = Tail(ready)
    /\ UNCHANGED <<program, otherVars, ref, traceVars, envs, notifs, toolCalls, maxPar, sem, active, isAdmin>>

AsyncNext ==
    \/ AsyncEvaluateWithContext
    \/ \E t \in DOMAIN tasks : AsyncAtom(t)
    \/ \E t \in DOMAIN tasks : AsyncPlan(t)
    \/ \E t \in DOMAIN tasks : AsyncSeq(t)
    \/ \E t \in DOMAIN tasks : AsyncPar(t)
    \/ \E t \in DOMAIN tasks : AsyncIf(t)
    \/ \E t \in DOMAIN tasks : AsyncLet(t)
    \/ \E t \in DOMAIN tasks : AsyncProcessBinding(t)
    \/ \E t \in DOMAIN tasks : AsyncNotify(t)
    \/ \E t \in DOMAIN tasks : AsyncSearch(t)
    \/ \E t \in DOMAIN tasks : AsyncCalc(t)
    \/ \E t \in DOMAIN tasks : AsyncDbQuery(t)
    \/ \E t \in DOMAIN tasks : AsyncUnknown(t)
    \/ \E t \in DOMAIN tasks : AsyncCancelled(t)
    \/ \E t \in DOMAIN tasks : AsyncTimerFires(t)
    \/ \E t \in DOMAIN tasks : AsyncExecutorDone(t)
    \/ \E t \in DOMAIN tasks : AsyncGatherDone(t)

----------------------------------------------------------------------------
(* The programs given to the async evaluator.                              *)

\* leaves that raise once they run: notify without an argument (IndexError),
\* a list whose operator is a number (NotImplementedError), a let whose
\* binding list is a number (TypeError)
AsyncRaisingLeaves ==
    {Form("notify", <<>>), L(<<I(5)>>), Form("let", <<I(5), I(1)>>)}

\* leaves that suspend the task
AsyncIoLeaves == {Calc("1+1"), Calc("2+2"), Search("q"), DbQuery("q")}

AsyncQuietLeaves == {I(1), S("x"), Notify(S("a")), Notify(S("b"))}

AsyncLeaves == AsyncQuietLeaves \cup AsyncIoLeaves \cup AsyncRaisingLeaves

\* programs the security gate rejects or is asked about
GateLeaves ==
    {Form("__import__", <<S("os")>>), Form("exec", <<S("ls")>>), Incr,
     Calc("__import__('os')"), Form("undefined_op", <<I(1)>>),
     Notify(S("eval(1)")), Search("__import__('os')"),
     L(<<Form("exec", <<S("ls")>>)>>),
     Form("let", <<L(<<>>), I(1), Form("exec", <<S("ls")>>)>>),
     Let1("x", Form("exec", <<S("ls")>>), S("x")),
     Form("let", <<L(<<L(<<S("x"), Form("exec", <<S("ls")>>)>>)>>)>>)}

AsyncPrograms ==
    AsyncLeaves
    \cup GateLeaves
    \cup {Form("plan", <<a>>) : a \in AsyncLeaves}
    \cup {Seq2(a, b) : a, b \in AsyncLeaves}
    \cup {Seq2(Notify(S("a")), b) : b \in GateLeaves}
    \cup {Par2(a, b) : a, b \in AsyncLeaves}
    \cup {Par2(Seq2(a, b), Seq2(c, d)) : a, c \in {Calc("1+1"), Search("q")},
                                         b, d \in AsyncRaisingLeaves \cup {Notify(S("a"))}}
    \cup {Par3(a, b, c) : a, b, c \in {Notify(S("a")), Calc("1+1"), Form("notify", <<>>)}}
    \cup {Par2(Par2(a, b), c) : a, b, c \in {Notify(S("a")), Calc("1+1"), Form("notify", <<>>)}}
    \cup {Par2(Let1("x", a, S("x")), c) : a, c \in {Calc("1+1"), Form("notify", <<>>)}}
    \cup {Form("if", <<c, a, b>>) : c \in {I(0), I(1), S("x")}, a, b \in {Notify(S("a")), I(1)}}
    \cup {Form("if", <<c, a>>) : c \in {I(0), I(1)}, a \in {Notify(S("a"))}}
    \cup {Let1("x", a, b) : a, b \in AsyncLeaves}
    \cup {Let2("x", a, "y", b, S("x")) : a, b \in AsyncIoLeaves \cup {S("x"), Form("notify", <<>>)}}
    \cup {Form("let", <<L(<<>>), a>>) : a \in {S("x"), Notify(S("a"))}}
    \cup {Form("let", <<L(<<L(<<S("x")>>)>>), I(1)>>), Form("let", <<L(<<>>)>>)}
    \cup {Let1("x", I(1), Let1("x", I(2), b)) : b \in {S("x"), Notify(S("x"))}}
    \cup {Let1("x", I(1), Seq2(Let1("x", Calc("1+1"), S("x")), S("x")))}
    \cup {Let1("y", S("x"), Seq2(Let1("x", Calc("1+1"), S("x")), S("y")))}
    \cup {Let2("x", I(1), "y", S("x"), S("y"))}

AsyncInit ==
    /\ OthersIdle
    /\ TraceOff
    /\ program \in AsyncPrograms
    /\ \E b \in RootBindings :
          /\ envs = <<[parent |-> 0, b |-> b]>>
          /\ ref = [b |-> b, out |-> None]
    /\ tasks = <<>>
    /\ notifs = <<>>
    /\ toolCalls = <<>>
    /\ ready = <<>>
    /\ maxPar \in 1..MaxParallel
    /\ sem = maxPar
    /\ active = {}
    /\ isAdmin \in BOOLEAN

SpecAsync == AsyncInit /\ [][AsyncNext]_vars

\* either evaluator, on its programs
Init == SyncInit \/ AsyncInit

Next == SyncNext \/ AsyncNext

Spec == Init /\ [][Next]_vars

----------------------------------------------------------------------------
(* Both evaluators on one program: the synchronous evaluator runs first,   *)
(* then the async evaluator is given the same program and the bindings the *)
(* caller's environment had at the start.                                  *)

\* what evaluate_with_context gave its caller: the value, or the exception
Outcome(tk) ==
    IF tk.st = "done" THEN [k |-> "value", v |-> tk.rv]
    ELSE [k |-> "error", type |-> tk.exc.type]

\* the sync evaluation is over; the async evaluator is constructed and handed
\* the program with a fresh environment
EvaluateAsyncToo ==
    /\ maxPar = 0
    /\ tasks # <<>>
    /\ tasks[1].st \in {"done", "raised"}
    /\ \A k \in DOMAIN tasks : Finished(k)
    /\ ref.out = None
    /\ ref' = [ref EXCEPT !.out = Outcome(tasks[1])]
    /\ tasks' = <<>>
    /\ envs' = <<[parent |-> 0, b |-> ref.b]>>
    /\ notifs' = <<>>
    /\ toolCalls' = <<>>
    /\ ready' = <<>>
    /\ maxPar' \in 1..MaxParallel
    /\ sem' = maxPar'
    /\ active' = {}
    /\ isAdmin' \in BOOLEAN
    /\ path' = <<>>
    /\ entries' = <<>>
    /\ open' = <<>>
    /\ UNCHANGED <<program, otherVars, traced, starter>>

BothInit ==
    /\ OthersIdle
    /\ TraceOff
    /\ program \in SyncPrograms \cup AsyncPrograms
    /\ \E b \in RootBindings :
          /\ envs = <<[parent |-> 0, b |-> b]>>
          /\ ref = [b |-> b, out |-> None]
    /\ tasks = <<>>
    /\ notifs = <<>>
    /\ toolCalls = <<>>
    /\ ready = <<>>
    /\ maxPar = 0
    /\ sem = 0
    /\ active = {}
    /\ isAdmin = FALSE

BothNext == SyncNext \/ EvaluateAsyncToo \/ AsyncNext

SpecBoth == BothInit /\ [][BothNext]_vars

----------------------------------------------------------------------------
(* The parser (core/parser.py) and the formatter of ASTs                   *)
(* (AgentService._format_s_expression_for_trace).  A text and a token are  *)
(* sequences of one-character strings; the str of an AST made here holds   *)
(* its characters as such a sequence.                                      *)

Quote == "\""
Chars == {"(", ")", Quote, " ", "a", "1"}
Digits == <<"0", "1", "2", "3", "4", "5", "6", "7", "8", "9">>

MinOf(set) == CHOOSE x \in set : \A y \in set : x <= y

RECURSIVE TokenizeFrom(_, _)
\* re.findall(r'"(?:\\"|[^"])*"|\(|\)|[^\s()]+', text) from position i on: a
\* quoted string up to the next quote, else one parenthesis, else the longest
\* run without blank or parenthesis; a blank matches nothing and is skipped
TokenizeFrom(txt, i) ==
    IF i > Len(txt) THEN <<>>
    ELSE LET c == txt[i]
             closing == {j \in (i + 1)..Len(txt) : txt[j] = Quote}
             stops == {j \in i..Len(txt) : txt[j] \in {" ", "(", ")"}}
             e == IF stops = {} THEN Len(txt) ELSE MinOf(stops) - 1
         IN IF c = Quote /\ closing # {}
            THEN <<SubSeq(txt, i, MinOf(closing))>> \o TokenizeFrom(txt, MinOf(closing) + 1)
            ELSE IF c \in {"(", ")"}
            THEN <<(<<c>>)>> \o TokenizeFrom(txt, i + 1)
            ELSE IF c = " "
            THEN TokenizeFrom(txt, i + 1)
            ELSE <<SubSeq(txt, i, e)>> \o TokenizeFrom(txt, e + 1)

\* tokenize_s_expression(s_expr_str)
TokenizeSExpression(txt) == TokenizeFrom(txt, 1)

IsDigit(c) == \E d \in DOMAIN Digits : Digits[d] = c
DigitValue(c) == (CHOOSE d \in DOMAIN Digits : Digits[d] = c) - 1

RECURSIVE PyIntOfDigits(_)
\* int(token) of a token of digits
PyIntOfDigits(tok) ==
    IF tok = <<>> THEN 0
    ELSE 10 * PyIntOfDigits(SubSeq(tok, 1, Len(tok) - 1)) + DigitValue(tok[Len(tok)])

\* parse_atom(token): a quoted token loses its quotes, a token int() accepts
\* is an int, every other token is a symbol, a str as well
ParseAtom(tok) ==
    IF tok[1] = Quote /\ tok[Len(tok)] = Quote
    THEN S(SubSeq(tok, 2, Len(tok) - 1))
    ELSE IF \A k \in DOMAIN tok : IsDigit(tok[k])
    THEN I(PyIntOfDigits(tok))
    ELSE S(tok)

ParseError(msg) == [ok |-> FALSE, err |-> msg]

RECURSIVE ParseFromTokens(_)
RECURSIVE ParseListItems(_, _)
\* parse_from_tokens(tokens): the value and the tokens left, or the error
ParseFromTokens(toks) ==
    IF toks = <<>> THEN ParseError("Unexpected EOF while reading")
    ELSE IF Head(toks) = <<"(">> THEN ParseListItems(Tail(toks), <<>>)
    ELSE IF Head(toks) = <<")">> THEN ParseError("Unexpected )")
    ELSE [ok |-> TRUE, val |-> ParseAtom(Head(toks)), rest |-> Tail(toks)]

\* the loop of parse_from_tokens after "(": expr_list is acc
ParseListItems(toks, acc) ==
    IF toks = <<>> THEN ParseError("Expected )")
    ELSE IF Head(toks) = <<")">> THEN [ok |-> TRUE, val |-> L(acc), rest |-> Tail(toks)]
    ELSE LET r == ParseFromTokens(toks)
         IN IF r.ok THEN ParseListItems(r.rest, Append(acc, r.val)) ELSE r

\* parse_s_expression without its test for tokens left over
ParseSExpressionNoTrailing(txt) ==
    LET toks == TokenizeSExpression(txt)
        r == ParseFromTokens(toks)
    IN IF toks = <<>> THEN ParseError("Empty expression")
       ELSE IF ~r.ok THEN r
       ELSE [ok |-> TRUE, val |-> r.val]

\* parse_s_expression(s_expr_str): the AST, or the SExpressionParseError
ParseSExpression(txt) ==
    LET toks == TokenizeSExpression(txt)
        r == ParseFromTokens(toks)
    IN IF toks = <<>> THEN ParseError("Empty expression")
       ELSE IF ~r.ok THEN r
       ELSE IF r.rest # <<>> THEN ParseError("Unexpected tokens after expression")
       ELSE [ok |-> TRUE, val |-> r.val]

RECURSIVE PyStrOfInt(_)
\* str(n) of an int n >= 0
PyStrOfInt(n) ==
    IF n < 10 THEN <<Digits[n + 1]>>
    ELSE PyStrOfInt(n \div 10) \o <<Digits[(n % 10) + 1]>>

RECURSIVE FormatSExpressionForTrace(_)
RECURSIVE JoinFormatted(_)
\* _format_s_expression_for_trace(expr): a str is quoted only when it has a
\* blank, a list is its items joined by blanks in parentheses, str() else
FormatSExpressionForTrace(x) ==
    IF IsStr(x)
    THEN IF \E k \in DOMAIN x.s : x.s[k] = " "
         THEN <<Quote>> \o x.s \o <<Quote>>
         ELSE x.s
    ELSE IF IsList(x)
    THEN IF x.items = <<>> THEN <<"(", ")">>
         ELSE <<"(">> \o JoinFormatted(x.items) \o <<")">>
    ELSE PyStrOfInt(x.n)

\* ' '.join(formatted_items)
JoinFormatted(items) ==
    IF Len(items) = 1 THEN FormatSExpressionForTrace(items[1])
    ELSE FormatSExpressionForTrace(items[1]) \o <<" ">> \o JoinFormatted(Tail(items))

evalVars == <<program, envs, tasks, notifs, toolCalls, asyncVars, traceVars, ref>>

\* parse_s_expression(text), of the original text or of the formatted AST
Parse ==
    /\ pst \in {"text", "formatted"}
    /\ pres' = ParseSExpression(IF pst = "text" THEN text ELSE shown)
    /\ pst' = IF pst = "text" THEN "parsed" ELSE "reparsed"
    /\ UNCHANGED <<text, shown, evalVars, treeVars, serviceVars, gateVars>>

\* _format_s_expression_for_trace(ast) of the AST the parse returned
Format ==
    /\ pst = "parsed"
    /\ pres.ok
    /\ shown' = FormatSExpressionForTrace(pres.val)
    /\ pst' = "formatted"
    /\ UNCHANGED <<text, pres, evalVars, treeVars, serviceVars, gateVars>>

ParseNext == Parse \/ Format

Texts == UNION {[1..n -> Chars] : n \in 0..MaxText}

ParseInit ==
    /\ text \in Texts
    /\ pst = "text"
    /\ pres = None
    /\ shown = <<>>
    /\ TreeIdle
    /\ ServiceIdle
    /\ GateIdle
    /\ TraceOff
    /\ program = None
    /\ ref = None
    /\ envs = <<>>
    /\ tasks = <<>>
    /\ notifs = <<>>
    /\ toolCalls = <<>>
    /\ ready = <<>>
    /\ maxPar = 0
    /\ sem = 0
    /\ active = {}
    /\ isAdmin = FALSE

SpecParse == ParseInit /\ [][ParseNext]_vars

----------------------------------------------------------------------------
(* Properties.                                                             *)

\* the top-level call has returned a value / has raised
Returned == tasks # <<>> /\ tasks[1].st = "done"
Raised == tasks # <<>> /\ tasks[1].st = "raised"

\* the value of a leaf whose evaluation has no effect on the environment
LeafValue(x) ==
    IF ~IsList(x)
    THEN IF IsStr(x) /\ x.s \in DOMAIN envs[1].b THEN envs[1].b[x.s] ELSE x
    ELSE CASE x.items[1] = S("notify") -> x.items[2]
           [] x.items[1] = S("calc") ->
                IF maxPar = 0 THEN Fl(CalcTable[x.items[2].s]) ELSE I(CalcTable[x.items[2].s])
           [] x.items[1] = S("search") -> S("search result: " \o x.items[2].s)
           [] x.items[1] = S("db-query") -> S("db result: " \o x.items[2].s)
           [] OTHER -> None

\* the values a leaf can return: the search of the worker-pool evaluator
\* returns what the MCP tool or its fallback produced
LeafValues(x) ==
    IF maxPar = 0 /\ IsList(x) /\ x.items[1] = S("search")
    THEN {S("dummy search result: " \o x.items[2].s), S("mcp search result"),
          S("search error")}
    ELSE {LeafValue(x)}

\* leaves that return a value and leave the environment alone
PureLeaves ==
    {I(1), S("x"), Notify(S("a")), Notify(S("b")), Calc("1+1"), Calc("2+2"),
     Search("q"), DbQuery("q")}

RECURSIVE ContainsOp(_, _)
\* the AST x has a list whose operator is op, at any depth
ContainsOp(x, op) ==
    /\ IsList(x)
    /\ Len(x.items) > 0
    /\ \/ x.items[1] = S(op)
       \/ \E j \in DOMAIN x.items : ContainsOp(x.items[j], op)

WhileBounded ==
    /\ \A t \in DOMAIN tasks : \A k \in DOMAIN tasks[t].stack :
          (IsForm(tasks[t].stack[k], "while")
             /\ tasks[t].stack[k].pc \in {"while_cond", "while_body"})
          => /\ tasks[t].stack[k].i < tasks[t].stack[k].max
             /\ Len(Args(tasks[t].stack[k].expr)) = 3
                   => tasks[t].stack[k].max = Args(tasks[t].stack[k].expr)[3].n
    /\ \A n \in 1..MaxIter : \A c \in Conds : \A m \in {"a", "b"} :
          program = While(c, Notify(S(m)), n)
             => /\ Len(notifs) <= n
                /\ (Returned /\ c = Less(I(1), I(2)))
                      => Len(notifs) = n /\ tasks[1].rv = S(m)
    /\ \A n \in 1..MaxIter :
          (program = While(Less(I(1), I(2)), Incr, n) /\ "x" \in DOMAIN envs[1].b)
             => /\ envs[1].b["x"].n <= n
                /\ Returned => envs[1].b["x"] = I(n) /\ tasks[1].rv = I(n)

LeafError(x) ==
    CASE x = SetF("y", I(1)) -> "NameError"
      [] x = Form("notify", <<>>) -> "IndexError"
      [] OTHER -> "TypeError"

\* every frame of a handle whose fallback is running: the fallback runs in
\* a child of the handle's environment that binds the error variable only
HandleScopes ==
    \A t \in DOMAIN tasks : \A k \in DOMAIN tasks[t].stack :
       LET f == tasks[t].stack[k]
       IN (IsForm(f, "handle") /\ f.env2 # 0)
          => /\ envs[f.env2].parent = f.env
             /\ DOMAIN envs[f.env2].b = {Args(f.expr)[1].s}
             /\ k < Len(tasks[t].stack) => tasks[t].stack[k + 1].env = f.env2

LetScopes ==
    \A t \in DOMAIN tasks : \A k \in DOMAIN tasks[t].stack :
       LET f == tasks[t].stack[k]
           inner == tasks[t].stack[k + 1].env
       IN /\ (IsForm(f, "let") /\ f.pc \notin BindPcs /\ f.env2 # 0)
             => /\ envs[f.env2].parent = f.env
                /\ k < Len(tasks[t].stack)
                      => inner = (IF f.pc = "ret" THEN f.env2 ELSE f.env)
          /\ f.pc \in BindPcs
             => /\ envs[f.env2].parent = f.env
                /\ k < Len(tasks[t].stack) => inner = f.env

\* the results of the lets that tell the scopes apart
LetResults ==
    Returned =>
       /\ program = Let1("x", I(1), Let1("x", I(2), S("x"))) => tasks[1].rv = I(2)
       /\ \A v \in {I(2), Calc("1+1")} :
             program = Let1("x", I(1), Seq2(Let1("x", v, S("x")), S("x")))
                => tasks[1].rv = I(1)
       /\ program = Let2("x", I(1), "y", S("x"), S("y")) => tasks[1].rv = LeafValue(S("x"))
       /\ program = Let1("y", S("x"), Seq2(Let1("x", Calc("1+1"), S("x")), S("y")))
             => tasks[1].rv = LeafValue(S("x"))

RECURSIVE NearestDefining(_, _, _)
\* the nearest scope of the chain of e that defines var, 0 when none does
NearestDefining(es, e, var) ==
    IF var \in DOMAIN es[e].b THEN e
    ELSE IF es[e].parent = 0 THEN 0
    ELSE NearestDefining(es, es[e].parent, var)

C4_ParTeardownBeforeRaise ==
    [][\A t \in DOMAIN tasks :
          (/\ AHead(t)
           /\ IsForm(Top(t), "par")
           /\ Top(t).pc = "par_wait"
           /\ Top(t).g = "exc"
           /\ Top(t).pend # CancelledError
           /\ tasks'[t].st = "raised")
          => \A j \in DOMAIN Top(t).kids : tasks'[Top(t).kids[j]].st # "run"]_vars

\* the branch tasks of the top-level par, and those that raised
TopBranches == {k \in DOMAIN tasks : tasks[k].parent = 1 /\ tasks[k].kind = "par"}
FailedBranches == {k \in TopBranches : tasks[k].st = "raised"}

\* C5: when two or more branches of a par raised, the error the par
\* surfaces is that of the failing branch with the smallest index
C5_ParFirstErrorByIndex ==
    (/\ Raised
     /\ IsList(program)
     /\ Len(program.items) > 0
     /\ program.items[1] = S("par")
     /\ tasks[1].exc.type # "SecurityError"
     /\ Cardinality(FailedBranches) >= 2)
    => \E k \in FailedBranches :
          /\ \A j \in FailedBranches : k <= j
          /\ tasks[1].exc = tasks[k].exc

\* C6: in the async evaluator the number of par branch tasks in flight at
\* any moment is at most max_parallel_tasks
C6_ParTasksBounded ==
    maxPar > 0
       => Cardinality({t \in DOMAIN tasks : tasks[t].kind = "par" /\ tasks[t].st = "run"})
             <= maxPar

\* every frame of a seq with an argument being evaluated: the arguments
\* before it were evaluated, it is the next one, in the seq's environment
SeqFrames ==
    \A t \in DOMAIN tasks : \A k \in DOMAIN tasks[t].stack :
       LET f == tasks[t].stack[k]
       IN (IsForm(f, "seq") /\ f.pc = "seq" /\ k < Len(tasks[t].stack))
          => /\ f.i \in 1..Len(Args(f.expr))
             /\ tasks[t].stack[k + 1].expr = Args(f.expr)[f.i]
             /\ tasks[t].stack[k + 1].env = f.env

\* the results of the seqs whose order of evaluation shows
SeqResults ==
    /\ \A a, b \in {"a", "b"} :
          program = Seq2(Notify(S(a)), Notify(S(b)))
             => /\ notifs \in {<<>>, <<S(a)>>, <<S(a), S(b)>>}
                /\ Returned => notifs = <<S(a), S(b)>> /\ tasks[1].rv = S(b)
    /\ (program = Seq2(Incr, S("x")) /\ Returned) => tasks[1].rv = I(1)
    /\ (program = Seq2(Incr, Incr) /\ Returned)
          => tasks[1].rv = I(2) /\ envs[1].b["x"] = I(2)
    /\ (program = Seq2(Calc("2+2"), Notify(S("a"))) /\ Returned)
          => tasks[1].rv = S("a") /\ notifs = <<S("a")>>

ValidMaxIterations(m) ==
    /\ m.t \in {"int", "float"}
    /\ ~IsHalf(m)
    /\ m.n > 0
    /\ m.n <= 10000

ForbiddenPatternStrings == {"__import__", "__import__('os')", "eval(1)"}

RECURSIVE HasForbiddenString(_)
\* some string atom of the AST x, at any position, matches a forbidden pattern
HasForbiddenString(x) ==
    IF IsStr(x) THEN x.s \in ForbiddenPatternStrings
    ELSE /\ IsList(x)
         /\ \E j \in DOMAIN x.items : HasForbiddenString(x.items[j])

\* C13: a program with a string atom matching a forbidden pattern, at any
\* position and under any operator, is rejected by the security gate with a
\* security error and nothing of it is evaluated
C13_ForbiddenStringAnywhere ==
    (HasForbiddenString(program) /\ tasks # <<>>)
       => /\ tasks[1].st = "raised"
          /\ tasks[1].exc.type = "SecurityError"
          /\ notifs = <<>>
          /\ toolCalls = <<>>

\* the gate accepted the program: the evaluation began and no security error
\* was raised
GateAccepted ==
    /\ maxPar > 0
    /\ tasks # <<>>
    /\ ~(tasks[1].st = "raised" /\ tasks[1].exc.type = "SecurityError")

RECURSIVE UnlistedOperator(_, _)
\* some list of the AST x (the program, an argument, a list standing as an
\* operator, the value of a let binding, the body of a let) has a name as
\* its operator that is neither a control form nor a tool allowed to the
\* caller; the binding list of a let and its pairs are not operators
UnlistedOperator(x, admin) ==
    /\ IsList(x)
    /\ Len(x.items) > 0
    /\ LET op == x.items[1]
           n == Len(x.items)
       IN \/ IsStr(op) /\ op.s \notin ControlStructures /\ ~IsAllowed(op.s, admin)
          \/ UnlistedOperator(op, admin)
          \/ IF op = S("let")
             THEN \/ /\ n >= 2
                     /\ IsList(x.items[2])
                     /\ \E i \in DOMAIN x.items[2].items :
                           LET bnd == x.items[2].items[i]
                           IN /\ IsList(bnd)
                              /\ Len(bnd.items) >= 2
                              /\ UnlistedOperator(bnd.items[2], admin)
                  \/ \E i \in 3..n : UnlistedOperator(x.items[i], admin)
             ELSE \E i \in 2..n : UnlistedOperator(x.items[i], admin)

\* C14: a program the gate accepts has no operator outside the control forms
\* and the tools allowed to the caller (the admin-only tools with the admin
\* flag only), and a program accepted without the admin flag is accepted
\* with it
C14_WhitelistAndAdmin ==
    /\ GateAccepted => ~UnlistedOperator(program, isAdmin)
    /\ ValidateRecursive(program, FALSE) => ValidateRecursive(program, TRUE)

\* the number of "(" less the number of ")" among the first k tokens
Depth(toks, k) ==
    Cardinality({j \in 1..k : toks[j] = <<"(">>})
       - Cardinality({j \in 1..k : toks[j] = <<")">>})

\* what the tokens are, by counting parentheses: one complete balanced
\* expression ("ok"), or the way in which they fail to be one
Balance(toks) ==
    LET closed == {k \in 1..Len(toks) : Depth(toks, k) <= 0}
    IN IF toks = <<>> THEN "empty"
       ELSE IF toks[1] = <<")">> THEN "close paren"
       ELSE IF closed = {} THEN "end of input"
       ELSE IF MinOf(closed) < Len(toks) THEN "trailing"
       ELSE "ok"

\* C15: parse_s_expression returns an AST exactly when the tokens of the text
\* are one complete balanced expression; a missing ")" fails as end of input
\* (the message "Expected )"), a ")" with no open list as "Unexpected )",
\* tokens after the first complete expression as "Unexpected tokens after
\* expression", no token at all as "Empty expression"; a failure carries no AST
C15_ParseAcceptsBalanced ==
    pst = "parsed" =>
       LET b == Balance(TokenizeSExpression(text))
       IN /\ pres.ok <=> b = "ok"
          /\ ~pres.ok => "val" \notin DOMAIN pres
          /\ b = "empty" => pres = ParseError("Empty expression")
          /\ b = "close paren" => pres = ParseError("Unexpected )")
          /\ b = "end of input" =>
                pres \in {ParseError("Expected )"), ParseError("Unexpected EOF while reading")}
          /\ b = "trailing" => pres = ParseError("Unexpected tokens after expression")

C15_Witness ==
    /\ pst = "parsed"
    /\ text = <<"(", "a", ")", ")">>
    /\ pres = ParseError("Unexpected tokens after expression")

\* the text is well formed: every quote opens or closes a string literal and
\* every string literal stands alone as a token
ValidText ==
    LET toks == TokenizeSExpression(text)
    IN \A k \in DOMAIN toks :
          (\E j \in DOMAIN toks[k] : toks[k][j] = Quote)
             => /\ Len(toks[k]) >= 2
                /\ toks[k][1] = Quote
                /\ toks[k][Len(toks[k])] = Quote
                /\ Cardinality({j \in DOMAIN toks[k] : toks[k][j] = Quote}) = 2

\* C16: the AST parsed from a valid text, formatted and parsed again, is the
\* same AST
C16_RoundTrip ==
    /\ (pst = "parsed" /\ ValidText /\ Balance(TokenizeSExpression(text)) = "ok") => pres.ok
    /\ (pst = "reparsed" /\ ValidText) => pres = ParseSExpression(text)

RECURSIVE SupportedForms(_)
\* the AST x is built from atoms and the forms of the synchronous evaluator:
\* every list is a call with a name as its operator, a let has its list of
\* (name value) pairs and its body
SupportedForms(x) ==
    IsList(x) =>
       /\ Len(x.items) > 0
       /\ IsStr(x.items[1])
       /\ IF x.items[1] = S("let")
          THEN /\ Len(x.items) = 3
               /\ IsList(x.items[2])
               /\ \A i \in DOMAIN x.items[2].items :
                     LET bnd == x.items[2].items[i]
                     IN /\ IsList(bnd)
                        /\ Len(bnd.items) = 2
                        /\ IsStr(bnd.items[1])
                        /\ SupportedForms(bnd.items[2])
               /\ SupportedForms(x.items[3])
          ELSE \A i \in 2..Len(x.items) : SupportedForms(x.items[i])

RECURSIVE PyEq(_, _)
\* a == b of Python: numbers by their value, lists item by item
PyEq(a, b) ==
    \/ a = b
    \/ NumLike(a) /\ NumLike(b) /\ ~IsHalf(a) /\ ~IsHalf(b) /\ NumOf(a) = NumOf(b)
    \/ /\ IsList(a)
       /\ IsList(b)
       /\ Len(a.items) = Len(b.items)
       /\ \A i \in DOMAIN a.items : PyEq(a.items[i], b.items[i])

----------------------------------------------------------------------------
(* The synchronous evaluator with its trace logger followed.               *)

\* the programs whose trace is followed: those without par, and pars of two
\* short branches
TracePrograms ==
    {x \in SyncPrograms : ~ContainsOp(x, "par")}
    \cup {Seq2(Calc("1+1"), Notify(S("done"))),
          Seq2(Handle("e", Plus(I(1), S("a")), Notify(S("caught"))), Notify(S("b"))),
          Par2(Notify(S("a")), Notify(S("b"))), Par2(I(1), S("x")),
          Par2(Notify(S("a")), Form("notify", <<>>)), Form("par", <<>>)}

TraceInit ==
    /\ OthersIdle
    /\ traced = TRUE
    /\ path = <<>>
    /\ entries = <<>>
    /\ open = <<>>
    /\ starter = 0
    /\ program \in TracePrograms
    /\ \E b \in RootBindings :
          /\ envs = <<[parent |-> 0, b |-> b]>>
          /\ ref = [b |-> b, out |-> None]
    /\ tasks = <<>>
    /\ notifs = <<>>
    /\ toolCalls = <<>>
    /\ ready = <<>>
    /\ maxPar = 0
    /\ sem = 0
    /\ active = {}
    /\ isAdmin = FALSE

SpecTrace == TraceInit /\ [][SyncNext]_vars

\* thread t leaves a call in this step: current_path is again what it was
\* when the call began (as its entry recorded it), the caller having popped
\* the index it pushed for the call if the call returned
PathRestored(t) ==
    LET n == Len(tasks[t].stack)
        began == entries[open[t][n]].path
    IN Len(tasks'[t].stack) = n - 1 =>
          IF tasks'[t].exc = NoExc /\ n > 1 /\ PathIndex(tasks[t].stack[n - 1], tasks[t].rv) >= 0
          THEN path' = SubSeq(began, 1, Len(began) - 1)
          ELSE path' = began

LeafToolCall(x) ==
    /\ NonEmptyList(x)
    /\ IsStr(x.items[1])
    /\ x.items[1].s \in {"notify", "calc", "search", "db-query"}
    /\ \A i \in 2..Len(x.items) : ~IsList(x.items[i])

\* a search that takes every entry below entries[i] for a child
FindChildEntriesAnyDepth(i) ==
    {j \in DOMAIN entries :
        /\ Len(entries[j].path) > Len(entries[i].path)
        /\ SubSeq(entries[j].path, 1, Len(entries[i].path)) = entries[i].path}

\* _find_child_entries(entries[i]): the entries whose path is one longer
\* than the path of entries[i] and begins with it
FindChildEntries(i) ==
    {j \in DOMAIN entries :
        /\ Len(entries[j].path) = Len(entries[i].path) + 1
        /\ SubSeq(entries[j].path, 1, Len(entries[i].path)) = entries[i].path}

\* analyze_tree_structure: metadata.child_count of entries[i]
ChildCount(i) == Cardinality(FindChildEntries(i))

----------------------------------------------------------------------------
(* TraceLogger: the tree analysis of the entries.  The methods of the      *)
(* logger are called in any order, so the entries arrive in any order and  *)
(* with any paths.                                                         *)

\* the paths the calls of push_path build
TreePaths == {<<>>, <<0>>, <<1>>, <<0, 1>>}

\* duration_ms of a completed entry; an entry that is not completed has 0
Durations == {1, 4}

\* ExecutionMetadata(): the hierarchy fields; an Optional field is a sequence
\* that is empty for None
NewMetadata ==
    [depth |-> 0, parent_path |-> <<>>, has_children |-> FALSE, child_count |-> 0,
     subtree_duration_ms |-> <<>>, subtree_operation_count |-> 0]

\* _collect_subtree_entries(entries[i]): the entries whose path begins with
\* the path of entries[i], that entry included, in the order of the list
CollectSubtreeEntries(i) ==
    SelectSeq([j \in DOMAIN entries |-> j],
              LAMBDA j : /\ Len(entries[j].path) >= Len(entries[i].path)
                         /\ SubSeq(entries[j].path, 1, Len(entries[i].path)) = entries[i].path)

\* duration_ms is a float: a sum is rounded to the nearest float, a tie to the
\* one with the even significand. The floats here have a significand of two
\* bits (0, 1, 2, 3, 4, 6, 8, 12, 16, ...) in place of the 53 of a double
RoundFloat(n) ==
    LET ulp == IF n < 4 THEN 1 ELSE IF n < 8 THEN 2 ELSE IF n < 16 THEN 4 ELSE 8
        below == (n \div ulp) * ulp
        rest == n - below
    IN IF 2 * rest < ulp THEN below
       ELSE IF 2 * rest > ulp THEN below + ulp
       ELSE IF (below \div ulp) % 2 = 0 THEN below
       ELSE below + ulp

RECURSIVE SumDurations(_)
\* sum(entry.duration_ms for entry in subtree_entries if entry.duration_ms > 0):
\* the additions are made from left to right, each one rounded
SumDurations(ids) ==
    IF ids = <<>> THEN 0
    ELSE IF durs[ids[Len(ids)]] > 0
    THEN RoundFloat(SumDurations(SubSeq(ids, 1, Len(ids) - 1)) + durs[ids[Len(ids)]])
    ELSE SumDurations(SubSeq(ids, 1, Len(ids) - 1))

\* _calculate_subtree_stats(entries[i], children) on the metadata md
CalculateSubtreeStats(i, md) ==
    [md EXCEPT !.subtree_duration_ms = <<SumDurations(CollectSubtreeEntries(i))>>,
               !.subtree_operation_count = Len(CollectSubtreeEntries(i))]

\* _update_hierarchy_metadata(entries[i], path_to_entries) on the metadata md
UpdateHierarchyMetadata(i, md) ==
    LET p == entries[i].path
        withDepth == [md EXCEPT !.depth = Len(p)]
        withParent == IF p # <<>>
                      THEN [withDepth EXCEPT !.parent_path = <<SubSeq(p, 1, Len(p) - 1)>>]
                      ELSE withDepth
        withChildren == [withParent EXCEPT !.has_children = ChildCount(i) > 0,
                                           !.child_count = ChildCount(i)]
    IN IF FindChildEntries(i) # {} THEN CalculateSubtreeStats(i, withChildren)
       ELSE withChildren

RECURSIVE AnalyzeFrom(_, _)
\* the loop of analyze_tree_structure from entry k on, ms being the metadata
\* of all the entries
AnalyzeFrom(k, ms) ==
    IF k > Len(entries) THEN ms
    ELSE AnalyzeFrom(k + 1, [ms EXCEPT ![k] = UpdateHierarchyMetadata(k, ms[k])])

\* push_path(index)
LoggerPushPath ==
    /\ \E idx \in {0, 1} :
          /\ Append(path, idx) \in TreePaths
          /\ path' = Append(path, idx)
    /\ UNCHANGED <<entries, treeVars>>

\* pop_path()
LoggerPopPath ==
    /\ path # <<>>
    /\ path' = SubSeq(path, 1, Len(path) - 1)
    /\ UNCHANGED <<entries, treeVars>>

\* start_operation(operation, input_data)
LoggerStartOperation ==
    /\ Len(entries) < MaxEntries
    /\ entries' = Append(entries, TraceEntry(path, FALSE))
    /\ durs' = Append(durs, 0)
    /\ meta' = Append(meta, NewMetadata)
    /\ analysed' = FALSE
    /\ UNCHANGED path

\* end_operation(entry_id, output, metadata): the caller gives new metadata
\* or none
LoggerEndOperation ==
    /\ \E id \in DOMAIN entries, d \in Durations, given \in BOOLEAN :
          /\ ~entries[id].done
          /\ entries' = [entries EXCEPT ![id].done = TRUE]
          /\ durs' = [durs EXCEPT ![id] = d]
          /\ meta' = IF given THEN [meta EXCEPT ![id] = NewMetadata] ELSE meta
    /\ analysed' = FALSE
    /\ UNCHANGED path

\* analyze_tree_structure()
AnalyzeTreeStructure ==
    /\ entries # <<>>
    /\ meta' = AnalyzeFrom(1, meta)
    /\ analysed' = TRUE
    /\ UNCHANGED <<path, entries, durs>>

\* the sequence q with its elements i and j exchanged
Exchanged(q, i, j) == [q EXCEPT ![i] = q[j], ![j] = q[i]]

\* the same entries in another order: two of them, each with its duration
\* and its metadata, change places in the list
ArriveInOtherOrder ==
    /\ analysed
    /\ \E i, j \in DOMAIN entries :
          /\ i < j
          /\ entries[i] # entries[j] \/ durs[i] # durs[j]
          /\ entries' = Exchanged(entries, i, j)
          /\ durs' = Exchanged(durs, i, j)
          /\ meta' = Exchanged(meta, i, j)
    /\ UNCHANGED <<path, analysed>>

TreeNext ==
    /\ \/ LoggerPushPath
       \/ LoggerPopPath
       \/ LoggerStartOperation
       \/ LoggerEndOperation
       \/ AnalyzeTreeStructure
       \/ ArriveInOtherOrder
    /\ UNCHANGED <<program, envs, tasks, notifs, toolCalls, asyncVars, parseVars, ref,
                   traced, open, starter, serviceVars, gateVars>>

TreeInit ==
    /\ OthersIdle
    /\ TraceOff
    /\ program = None
    /\ ref = None
    /\ envs = <<>>
    /\ tasks = <<>>
    /\ notifs = <<>>
    /\ toolCalls = <<>>
    /\ ready = <<>>
    /\ maxPar = 0
    /\ sem = 0
    /\ active = {}
    /\ isAdmin = FALSE

SpecTree == TreeInit /\ [][TreeNext]_vars

\* C21: after analyze_tree_structure every entry has depth = the length of
\* its path, parent_path = its path without the last index (none for the
\* empty path), child_count = the number of entries whose path is one index
\* longer and begins with its path, and has_children exactly when
\* child_count > 0
C21_HierarchyMetadata ==
    analysed =>
       \A i \in DOMAIN entries :
          LET p == entries[i].path
              kids == {j \in DOMAIN entries :
                          /\ Len(entries[j].path) = Len(p) + 1
                          /\ \A k \in 1..Len(p) : entries[j].path[k] = p[k]}
          IN /\ meta[i].depth = Len(p)
             /\ meta[i].parent_path =
                   (IF p = <<>> THEN <<>> ELSE <<[k \in 1..(Len(p) - 1) |-> p[k]]>>)
             /\ meta[i].child_count = Cardinality(kids)
             /\ meta[i].has_children = (Cardinality(kids) > 0)

\* C21 witness: an analysed list with a root entry, its child, and a child of
\* that child which arrived before its parent
C21_Witness ==
    /\ analysed
    /\ \E i, j, k \in DOMAIN entries :
          /\ k < j
          /\ entries[i].path = <<>>
          /\ entries[j].path = <<0>>
          /\ entries[k].path = <<0, 1>>
          /\ meta[i].child_count = 1
          /\ meta[j].has_children
          /\ meta[k].parent_path = <<<<0>>>>

----------------------------------------------------------------------------
(* AgentService.evaluate_s_expression: parse, evaluate, retry, history.    *)
(* The evaluator is the one the service holds (the tests put a mock        *)
(* there): a call of it returns a value or raises.                         *)

\* the S-expression texts given to the service and returned by the LLM
ServiceTexts == {<<"a">>, <<"(", "a", ")">>, <<"(", "a">>}

\* max_retries = 3 if auto_retry else 1
MaxRetries(auto_retry) == IF auto_retry THEN 3 ELSE 1

\* a history that keeps the successes only
AddToHistorySuccessOnly(h, input_data, output_data, success) ==
    IF success
    THEN Append(h, [input |-> input_data, output |-> output_data, success |-> success])
    ELSE h

\* add_to_history("evaluate", input_data, output_data, success)
AddToHistory(h, input_data, output_data, success) ==
    Append(h, [input |-> input_data, output |-> output_data, success |-> success])

\* str(e) of the errors the evaluator raises
EvaluatorErrors == {"Test error"}

\* what the try block of one attempt gives for the text t: the parse error,
\* or what the evaluator returns or raises for the parsed expression
AttemptOutcomes(t) ==
    IF ~ParseSExpression(t).ok
    THEN {[ok |-> FALSE, evaluated |-> FALSE, val |-> None, err |-> ParseSExpression(t).err]}
    ELSE {[ok |-> TRUE, evaluated |-> TRUE, val |-> ParseSExpression(t).val, err |-> ""]}
         \cup {[ok |-> FALSE, evaluated |-> TRUE, val |-> None, err |-> e] : e \in EvaluatorErrors}

\* evaluate_s_expression(s_expr, context, auto_retry) is called
EvaluateSExpressionCall ==
    /\ svc.pc \in {"idle", "done"}
    /\ Len(history) < MaxCalls
    /\ \E t \in ServiceTexts, auto \in BOOLEAN, query \in BOOLEAN :
          svc' = [pc |-> "attempt", s_expr |-> t, auto_retry |-> auto,
                  original_query |-> query, attempt |-> 0, evals |-> <<>>,
                  before |-> Len(history), out |-> [kind |-> "none"]]
    /\ UNCHANGED history

\* one pass of the loop over range(max_retries)
EvaluateSExpressionAttempt ==
    /\ svc.pc = "attempt"
    /\ \E o \in AttemptOutcomes(svc.s_expr), regenerated \in ServiceTexts :
          LET ran == IF o.evaluated THEN Append(svc.evals, svc.s_expr) ELSE svc.evals
              last == svc.attempt = MaxRetries(svc.auto_retry) - 1
          IN IF o.ok
             THEN /\ history' = AddToHistory(history, svc.s_expr, o.val, TRUE)
                  /\ svc' = [svc EXCEPT !.pc = "done", !.evals = ran,
                                        !.out = [kind |-> "returned", val |-> o.val]]
             ELSE IF svc.auto_retry /\ ~last /\ svc.original_query
             THEN /\ svc' = [svc EXCEPT !.s_expr = regenerated, !.evals = ran,
                                        !.attempt = svc.attempt + 1]
                  /\ UNCHANGED history
             ELSE IF last
             THEN /\ history' = AddToHistory(history, svc.s_expr, "Error: " \o o.err, FALSE)
                  /\ svc' = [svc EXCEPT !.pc = "done", !.evals = ran,
                                        !.out = [kind |-> "raised", err |-> o.err]]
             ELSE /\ svc' = [svc EXCEPT !.evals = ran, !.attempt = svc.attempt + 1]
                  /\ UNCHANGED history

ServiceNext ==
    /\ EvaluateSExpressionCall \/ EvaluateSExpressionAttempt
    /\ UNCHANGED <<evalVars, parseVars, treeVars, gateVars>>

ServiceInit ==
    /\ OthersIdle
    /\ TraceOff
    /\ program = None
    /\ ref = None
    /\ envs = <<>>
    /\ tasks = <<>>
    /\ notifs = <<>>
    /\ toolCalls = <<>>
    /\ ready = <<>>
    /\ maxPar = 0
    /\ sem = 0
    /\ active = {}
    /\ isAdmin = FALSE

SpecService == ServiceInit /\ [][ServiceNext]_vars

\* C22: a call of evaluate_s_expression adds nothing to the session history
\* while it runs and exactly one entry by its end: success = true with the
\* result when it returns, success = false with the error text when it
\* raises the error of its last attempt
C22_OneHistoryEntryPerCall ==
    /\ svc.pc = "attempt" => Len(history) = svc.before /\ svc.out.kind = "none"
    /\ svc.pc = "done" =>
          /\ Len(history) = svc.before + 1
          /\ LET e == history[Len(history)]
             IN /\ e.input = svc.s_expr
                /\ CASE svc.out.kind = "returned" ->
                          e.success /\ e.output = svc.out.val
                     [] svc.out.kind = "raised" ->
                          ~e.success /\ e.output = "Error: " \o svc.out.err
                     [] OTHER -> FALSE

\* C22 witness: a second call failed in each of its three attempts and the
\* history holds the entry of the first call and one entry of the second
C22_Witness ==
    /\ svc.pc = "done"
    /\ svc.out.kind = "raised"
    /\ Len(svc.evals) = 3
    /\ Len(history) = 2
    /\ history[1].success
    /\ ~history[2].success

\* C30: when auto_retry is off or the context has no original_query, a
\* call of evaluate_s_expression invokes the evaluator at most once
C30_NoReevaluationWithoutRegeneration ==
    (svc.pc # "idle" /\ ~(svc.auto_retry /\ svc.original_query)) => Len(svc.evals) <= 1

----------------------------------------------------------------------------
(* The trace of par branches on the worker-pool evaluator.                 *)

\* the entries thread t holds from its calls of start_operation begin with
\* the path p
EntriesUnder(t, p) ==
    \A k \in DOMAIN open[t] :
       LET q == entries[open[t][k]].path
       IN Len(q) >= Len(p) /\ SubSeq(q, 1, Len(p)) = p

C26_AnalysisIgnoresOrder ==
    analysed => meta = AnalyzeFrom(1, meta)

(***************************************************************************)
(* The schema validator (core/schema_validator.py) beside the security     *)
(* validator (tools/security_sympy.py).  validate(expr) collects the       *)
(* errors of four checks and accepts when there is none; of an error the   *)
(* model keeps the kind.  The JSON schema file the third check reads is    *)
(* not part of the source tree: that check may report an error or not.     *)
(* The limits on depth, node count and string length are far above the     *)
(* expressions given here.                                                 *)
(***************************************************************************)

\* security_rules["forbidden_operations"]
ForbiddenOperations ==
    {"__import__", "eval", "exec", "compile", "open", "file", "input",
     "raw_input", "reload", "vars", "globals", "locals", "delattr",
     "setattr", "getattr", "hasattr"}

\* the strings of the expressions below that security_rules
\* ["restricted_patterns"] match: __.*__ and eval\s*\(
RestrictedStrings == {"__import__", "eval(1)", "__import__('os')"}

ValidationLevels == {"strict", "permissive", "experimental"}

\* the expressions given to the validators: the constructs of
\* test_schema_compliance, let forms, and forms the checks reject
GateExprs ==
    {Seq2(Notify(S("step1")), Notify(S("step2"))),
     Par2(Calc("1+1"), Calc("2+2")),
     Form("if", <<Less(I(5), I(10)), Notify(S("true")), Notify(S("false"))>>),
     Handle("err", Form("unknown_op", <<>>), Notify(S("handled"))),
     While(Less(S("x"), I(3)), Incr, 5),
     Let1("x", I(42), Notify(S("x"))),
     SetF("counter", I(0)),
     Form("+", <<I(1), I(2), I(3)>>),
     Less(I(5), I(10)),
     Notify(S("message")),
     Calc("1+1"),
     Form("math", <<S("x^2"), S("diff"), S("x")>>),
     Form("ask_user", <<S("q"), S("var_name"), S("required")>>),
     Form("let", <<L(<<>>), I(1)>>),
     Let1("x", Plus(I(1), I(2)), S("x")),
     Let2("x", I(1), "y", S("x"), Plus(S("x"), S("y"))),
     Let1("x", I(1), Let1("y", I(2), S("y"))),
     Let1("x", Form("exec", <<S("ls")>>), S("x")),
     Let1("x", I(1), Notify(S("eval(1)"))),
     Let1("x", I(1), Form("if", <<I(1)>>)),
     Form("let", <<S("x"), I(1)>>),
     Form("let", <<L(<<>>)>>),
     Form("let", <<L(<<>>), I(1), I(2)>>),
     Form("db-query", <<S("q")>>),
     Form("__import__", <<S("os")>>),
     Form("exec", <<S("ls")>>),
     Form("if", <<I(1)>>),
     Form("notify", <<S("a"), S("b")>>),
     L(<<>>), L(<<I(1), I(2)>>), I(1), S("x")}

RECURSIVE CheckSecurity(_)
\* _check_security(expr): check_node over the whole expression
CheckSecurity(node) ==
    IF IsStr(node)
    THEN (IF node.s \in ForbiddenOperations THEN {"forbidden operation"} ELSE {})
         \cup (IF node.s \in RestrictedStrings THEN {"forbidden pattern"} ELSE {})
    ELSE IF IsList(node)
    THEN UNION {CheckSecurity(node.items[k]) : k \in DOMAIN node.items}
    ELSE {}

\* op_requirements[op]: min and max, max = 0 standing for None
OpRequirements(op) ==
    CASE op \in {"seq", "par"} -> [min |-> 1, max |-> 0]
      [] op \in {"if", "while"} -> [min |-> 2, max |-> 3]
      [] op = "handle" -> [min |-> 3, max |-> 3]
      [] op \in {"let", "set", "<"} -> [min |-> 2, max |-> 2]
      [] op = "+" -> [min |-> 2, max |-> 0]
      [] op \in {"notify", "calc"} -> [min |-> 1, max |-> 1]
      [] op = "ask_user" -> [min |-> 1, max |-> 3]

OpsWithRequirements ==
    {"seq", "par", "if", "handle", "while", "let", "set", "+", "<", "notify",
     "calc", "ask_user"}

RECURSIVE CheckStructure(_)
\* _check_structure(expr): validate_structure(node); every list is taken for
\* an operator with its arguments
CheckStructure(node) ==
    IF ~IsList(node) THEN {}
    ELSE IF Len(node.items) = 0 THEN {"empty list"}
    ELSE IF ~IsStr(node.items[1]) THEN {"operator is not a string"}
    ELSE LET op == node.items[1].s
             arg_count == Len(node.items) - 1
         IN (IF op \in OpsWithRequirements /\ arg_count < OpRequirements(op).min
             THEN {"too few arguments"} ELSE {})
            \cup (IF /\ op \in OpsWithRequirements
                     /\ OpRequirements(op).max # 0
                     /\ arg_count > OpRequirements(op).max
                  THEN {"too many arguments"} ELSE {})
            \cup UNION {CheckStructure(node.items[k]) : k \in 2..Len(node.items)}

\* _validate_by_level(expr): in strict mode the experimental operations are
\* refused at the top of the expression
ValidateByLevel(expr, level) ==
    IF /\ level = "strict"
       /\ IsList(expr)
       /\ Len(expr.items) > 0
       /\ expr.items[1] = S("db-query")
    THEN {"experimental operation"}
    ELSE {}

\* the errors of the checks of validate other than the one of the JSON schema
CodeErrors(expr, level) ==
    CheckSecurity(expr) \cup CheckStructure(expr) \cup ValidateByLevel(expr, level)

\* SExpressionValidator.validate(expr): (is_valid, errors)
Validate ==
    /\ gate.pc = "given"
    /\ ~gate.validated
    /\ \E schema_errors \in {{}, {"schema"}} :
          gate' = [gate EXCEPT !.validated = TRUE,
                               !.errors = CodeErrors(gate.expr, gate.level)
                                             \cup schema_errors]
    /\ UNCHANGED <<evalVars, parseVars, treeVars, serviceVars>>

\* SecurityValidator.validate_s_expression(s_expr, is_admin)
ValidateSExpression ==
    /\ gate.pc = "given"
    /\ ~gate.checked
    /\ gate' = [gate EXCEPT !.checked = TRUE,
                            !.secure = ValidateRecursive(gate.expr, gate.admin)]
    /\ UNCHANGED <<evalVars, parseVars, treeVars, serviceVars>>

GateNext == Validate \/ ValidateSExpression

GateInit ==
    /\ ParseIdle
    /\ TreeIdle
    /\ ServiceIdle
    /\ TraceOff
    /\ \E e \in GateExprs, lv \in ValidationLevels, adm \in BOOLEAN :
          gate = [pc |-> "given", expr |-> e, level |-> lv, admin |-> adm,
                  validated |-> FALSE, errors |-> {},
                  checked |-> FALSE, secure |-> FALSE]
    /\ program = None
    /\ ref = None
    /\ envs = <<>>
    /\ tasks = <<>>
    /\ notifs = <<>>
    /\ toolCalls = <<>>
    /\ ready = <<>>
    /\ maxPar = 0
    /\ sem = 0
    /\ active = {}
    /\ isAdmin = FALSE

SpecGate == GateInit /\ [][GateNext]_vars

\* C27: the schema validator accepts every well-formed let, a list of
\* (name expr) pairs followed by a body: when the checks of validate find no
\* error in the binding expressions and in the body, each taken alone, they
\* find none in the let (the JSON schema check, whose file is not in the
\* source tree, left aside)
C27_GateAcceptsLet ==
    LET e == gate.expr
        IsPair(b) == IsList(b) /\ Len(b.items) = 2 /\ IsStr(b.items[1])
        WellFormedLet ==
            /\ IsList(e)
            /\ Len(e.items) = 3
            /\ e.items[1] = S("let")
            /\ IsList(e.items[2])
            /\ \A k \in DOMAIN e.items[2].items : IsPair(e.items[2].items[k])
        Parts == {e.items[3]}
                   \cup {e.items[2].items[k].items[2] : k \in DOMAIN e.items[2].items}
    IN (/\ gate.pc = "given"
        /\ gate.validated
        /\ WellFormedLet
        /\ \A part \in Parts : CodeErrors(part, gate.level) = {})
       => gate.errors \subseteq {"schema"}

\* C28: once the top-level evaluate_with_context of the concurrent evaluator
\* has returned or raised, _active_tasks holds none of the tasks the call
\* created
C28_ActiveTasksCleared ==
    (maxPar > 0 /\ tasks # <<>> /\ (Returned \/ Raised)) => active = {}

====
